---------------------------- MODULE Spec2Model ----------------------------
(***************************************************************************)
(* The crawl engine of eigen-neovim (src/eigen_neovim/github_client.py)   *)
(* and its caller fetch_all (src/eigen_neovim/__main__.py) as a state     *)
(* machine.  One action per step of GitHubClient.fetch_configs_resumable, *)
(* with the three remote calls (_code_search, _get_repo_info,             *)
(* _get_raw_content) modelled attempt by attempt under their tenacity     *)
(* @retry decorators, the FetchState JSON file, and the artifact          *)
(* directory written by save_configs_to_disk.                             *)
(*                                                                         *)
(* Strings that the code takes apart (repository full names, file names)  *)
(* are sequences of one-character strings, so that split("/", 1),         *)
(* split("__", 1) and the owner__name.lua encoding are computed.          *)
(***************************************************************************)
EXTENDS Integers, Sequences, FiniteSets, TLC

----------------------------------------------------------------------------
(* Bounds of the model *)

\* max_repos is drawn from 1..MaxCap
MaxCap == 2
\* a search response carries at most MaxItems hits
MaxItems == 2
\* the upstream answers pages 1..MaxVariedPage with any response; deeper pages of
\* a free upstream carry one hit list only
MaxVariedPage == 2

\* the clock of the client specification stops here
MaxTime == 20

\* the number of configs handed to save_configs_to_disk
MaxSaved == 2

(* Program constants *)

\* stop_after_attempt(5) on _code_search
SearchAttempts == 5
\* stop_after_attempt(3) on _get_repo_info and _get_raw_content
RepoAttempts == 3
\* per_page=100 and the factor in state.page * 100 >= total_count
PerPage == 100
\* state.page >= 10
PageCeiling == 10
\* state.total_fetched % 10 == 0
CheckpointEvery == 10

\* self._min_request_interval = 6.0, in the time unit of the clock (seconds)
min_request_interval == 6

----------------------------------------------------------------------------
(* Inputs: the catalog, the repository names a search hit can carry, the   *)
(* responses of the remote calls.                                          *)

\* QUERY_TEMPLATES or a caller's custom_queries: a fixed ordered catalog; a
\* caller's catalog may name a strategy twice
Catalog == <<"q1", "q2", "q1">>

\* the catalogs a run can be given
Catalogs == { Catalog, <<"q1", "q2">> }

\* item["repository"]["full_name"] of a search hit: two well-formed names and one
\* without a slash
FullNames == { <<"a", "/", "b">>, <<"c", "/", "d">>, <<"x">> }

\* the names whose artifacts an earlier crawl may have left in the directory
SeededNames == { <<"a", "/", "b">> }

\* data.get("items", []): the hits of one response, in response order
ItemLists == UNION { [1..n -> FullNames] : n \in 0..MaxItems }

\* data.get("total_count", 0)
TotalCounts == {0, 150, 2000}

\* the status of an exchange in which self.client.get raised before any response
\* was received (httpx.TransportError): no HTTP status exists
NoStatus == 0

\* What one HTTP exchange of the search or metadata call can end in: a status
\* with the rate-limit marks _check_rate_limit reads, or an exception raised by
\* the transport before any status exists (httpx.TransportError).
Responses ==
    { [status |-> 200, remaining |-> "?", body_rate_limit |-> FALSE],
      [status |-> 422, remaining |-> "?", body_rate_limit |-> FALSE],
      [status |-> 403, remaining |-> "0", body_rate_limit |-> FALSE],
      [status |-> 401, remaining |-> "?", body_rate_limit |-> FALSE],
      [status |-> 500, remaining |-> "?", body_rate_limit |-> FALSE],
      [status |-> NoStatus, remaining |-> "?", body_rate_limit |-> FALSE] }

\* repo_info_data of a successful _get_repo_info: the full record, one without
\* default_branch and pushed_at, and one without any of the three fields
MetaFields == {"stargazers_count", "default_branch", "pushed_at"}
MetaValue == [stargazers_count |-> 7, default_branch |-> "dev", pushed_at |-> "t1"]
MetaFieldSets == { MetaFields, {"stargazers_count"}, {} }
MetaRecords == { [f \in fs |-> MetaValue[f]] : fs \in MetaFieldSets }

----------------------------------------------------------------------------
(* String helpers *)

\* index of the first occurrence of character c in s, 0 when absent
IndexOf(s, c) ==
    IF \E i \in 1..Len(s) : s[i] = c
    THEN CHOOSE i \in 1..Len(s) : s[i] = c /\ \A j \in 1..(i-1) : s[j] # c
    ELSE 0

\* full_name.split("/", 1): the parts, two exactly when a slash occurs
SplitSlash(full_name) ==
    LET i == IndexOf(full_name, "/")
    IN  IF i = 0 THEN <<full_name>>
        ELSE << SubSeq(full_name, 1, i-1), SubSeq(full_name, i+1, Len(full_name)) >>

\* index of the last "__" in stem, 0 when absent: stem.rsplit("__", 1)
IndexOfLastDunder(stem) ==
    LET hit(i) == stem[i] = "_" /\ stem[i+1] = "_"
    IN  IF \E i \in 1..(Len(stem)-1) : hit(i)
        THEN CHOOSE i \in 1..(Len(stem)-1) :
                 hit(i) /\ \A j \in (i+1)..(Len(stem)-1) : ~hit(j)
        ELSE 0

\* index of the first "__" in stem, 0 when absent
IndexOfDunder(stem) ==
    LET hit(i) == stem[i] = "_" /\ stem[i+1] = "_"
    IN  IF \E i \in 1..(Len(stem)-1) : hit(i)
        THEN CHOOSE i \in 1..(Len(stem)-1) : hit(i) /\ \A j \in 1..(i-1) : ~hit(j)
        ELSE 0

\* f"{owner}__{name}.lua"; the extension is one token
CacheFileName(owner, name) == owner \o <<"_", "_">> \o name \o <<".lua">>

\* f"{filename}.meta"
MetaFileName(owner, name) == CacheFileName(owner, name) \o <<".meta">>

\* GitHubClient._get_cached_repos: the names decoded from the *.lua files
get_cached_repos(dir) ==
    { LET stem == SubSeq(f, 1, Len(f)-1)
          i == IndexOfDunder(stem)
      IN  SubSeq(stem, 1, i-1) \o <<"/">> \o SubSeq(stem, i+2, Len(stem))
      : f \in { g \in dir : /\ Len(g) > 0
                            /\ g[Len(g)] = ".lua"
                            /\ IndexOfDunder(SubSeq(g, 1, Len(g)-1)) # 0 } }

----------------------------------------------------------------------------
(* FetchState and its persistence *)

\* FetchState(): the dataclass defaults
FetchState ==
    [ query_index |-> 0, page |-> 1, total_fetched |-> 0,
      seen_repos |-> {}, failed_repos |-> {}, completed_queries |-> <<>> ]

Range(seq) == { seq[i] : i \in 1..Len(seq) }

\* list(a_set): the elements once each, in an order the interpreter picks
Enumerations(S) == { l \in [1..Cardinality(S) -> S] : Range(l) = S }

\* list(a_set) as one interpreter run produces it: one fixed order per set
RECURSIVE list_of(_)
list_of(S) ==
    IF S = {} THEN <<>>
    ELSE LET x == CHOOSE y \in S : TRUE IN <<x>> \o list_of(S \ {x})

\* to_dict that leaves total_fetched out of the checkpoint
to_dict_without_total(self, seen_list, failed_list) ==
    [ query_index |-> self.query_index,
      page |-> self.page,
      total_fetched |-> 0,
      seen_repos |-> seen_list,
      failed_repos |-> failed_list,
      completed_queries |-> self.completed_queries ]

\* FetchState.to_dict, given the two list(...) results
to_dict(self, seen_list, failed_list) ==
    [ query_index |-> self.query_index,
      page |-> self.page,
      total_fetched |-> self.total_fetched,
      seen_repos |-> seen_list,
      failed_repos |-> failed_list,
      completed_queries |-> self.completed_queries ]

\* json.dumps(dict): the members as key/value pairs in insertion order
json_dumps(d) ==
    << <<"query_index", d.query_index>>, <<"page", d.page>>,
       <<"total_fetched", d.total_fetched>>, <<"seen_repos", d.seen_repos>>,
       <<"failed_repos", d.failed_repos>>,
       <<"completed_queries", d.completed_queries>> >>

\* json.loads(text): a dict from the member list (a later duplicate key wins)
json_loads(text) ==
    LET keys == { text[i][1] : i \in 1..Len(text) }
        last(k) == CHOOSE i \in 1..Len(text) :
                      /\ text[i][1] = k
                      /\ \A j \in (i+1)..Len(text) : text[j][1] # k
    IN  [ k \in keys |-> text[last(k)][2] ]

\* data.get(key, default)
dict_get(d, key, default) == IF key \in DOMAIN d THEN d[key] ELSE default

\* from_dict that reads failed_repos from the seen_repos member
from_dict_failed_from_seen(d) ==
    [ query_index |-> dict_get(d, "query_index", 0),
      page |-> dict_get(d, "page", 1),
      total_fetched |-> dict_get(d, "total_fetched", 0),
      seen_repos |-> Range(dict_get(d, "seen_repos", <<>>)),
      failed_repos |-> Range(dict_get(d, "seen_repos", <<>>)),
      completed_queries |-> dict_get(d, "completed_queries", <<>>) ]

\* FetchState.from_dict
from_dict(d) ==
    [ query_index |-> dict_get(d, "query_index", 0),
      page |-> dict_get(d, "page", 1),
      total_fetched |-> dict_get(d, "total_fetched", 0),
      seen_repos |-> Range(dict_get(d, "seen_repos", <<>>)),
      failed_repos |-> Range(dict_get(d, "failed_repos", <<>>)),
      completed_queries |-> dict_get(d, "completed_queries", <<>>) ]

\* the state file does not exist
NoFile == <<>>

\* FetchState.save: the text written to the state file
save(self) ==
    json_dumps(to_dict(self, list_of(self.seen_repos), list_of(self.failed_repos)))

\* FetchState.load
load(file) == IF file # NoFile THEN from_dict(json_loads(file)) ELSE FetchState

----------------------------------------------------------------------------
(* Classification of one exchange *)

\* GitHubClient._check_rate_limit, then the call's own outcome: the exception an
\* attempt of _code_search or _get_repo_info raises, "none" when it returns
check_rate_limit(response) ==
    IF response.status = NoStatus THEN "TransportError"
    ELSE IF /\ response.status = 403
            /\ (response.remaining = "0" \/ response.body_rate_limit)
         THEN "RateLimitError"
    ELSE IF response.status \notin 200..299 THEN "HTTPStatusError"
    ELSE "none"

\* _get_raw_content: response.raise_for_status() alone
raise_for_status(response) ==
    IF response.status = NoStatus THEN "TransportError"
    ELSE IF response.status \notin 200..299 THEN "HTTPStatusError"
    ELSE "none"

\* a throttle that never sleeps
never_sleeps(elapsed) == FALSE

\* _rate_limit_wait, line 210: if elapsed < self._min_request_interval
must_sleep(elapsed) == elapsed < min_request_interval

\* a retry predicate that retries whatever an attempt raised
retries_any(exc) == exc # "none"

\* retry=retry_if_exception_type((httpx.HTTPStatusError, RateLimitError))
code_search_retries(exc) == exc \in {"HTTPStatusError", "RateLimitError"}

\* retry=retry_if_exception_type(httpx.HTTPStatusError)
repo_call_retries(exc) == exc = "HTTPStatusError"

----------------------------------------------------------------------------
VARIABLES
    state,            \* the FetchState object shared by fetch_all and the engine
    state_file,       \* the text of the state file, NoFile when absent
    output_dir,       \* the file names in the artifact directory
    max_repos,        \* the max_repos argument
    pc,               \* where the process is
    data,             \* the response of the search call, while its page is walked
    idx,              \* position of the for loop in data.items, 0 outside the loop
    query_exhausted,  \* local flag of the page walk
    rate_limited,     \* local flag of the page walk
    attempt,          \* attempt number of the remote call in progress, 0 when none
    attempt_error,    \* what the previous attempt of the call in progress raised
    search_error,     \* how the latest search call that raised to its caller ended
    repo_info_result, \* what _get_repo_info gave for the hit in progress
    repo,             \* the RepoInfo of the hit in progress, once built
    yielded,          \* history: repository names of the artifacts yielded
    progress,         \* the arguments of the latest progress_callback call
    mock,             \* the upstream: free, or a fixed dataset
    phase,            \* SpecResume: 1 the one-pass crawl, 2 the interrupted one
    one_pass,         \* SpecResume: the state the one-pass crawl ended with
    loaded,           \* SpecRoundTrip: the state read back
    now,              \* SpecClient: what time.time() reads
    last_request_time, \* self._last_request_time
    step,             \* SpecClient: position inside the client method in progress
    throttled,        \* history: _rate_limit_wait completed since the latest request
    slept,            \* history: the latest _rate_limit_wait called time.sleep
    page_searched,    \* history: the search of (query_index, page) returned in this run
    single,           \* search_configs: its locals seen_repos, page and fetched
    http_response     \* _check_rate_limit: the response it is given

locals == << data, idx, query_exhausted, rate_limited, attempt, attempt_error,
             repo_info_result, repo >>
harness == << mock, phase, one_pass, loaded >>
governor == << now, last_request_time, step, throttled, slept >>
apart == << single, http_response >>
vars == << state, state_file, output_dir, max_repos, pc, locals, search_error,
           yielded, progress, harness, governor, page_searched, apart >>

\* values of locals that hold nothing
NoData == [items |-> <<>>, total_count |-> 0]
NoError == [exception |-> "none", query_index |-> 0, page |-> 0, status |-> NoStatus]
NoAttemptError == [exception |-> "none", status |-> NoStatus]
NoResult == [exception |-> "none", data |-> <<>>]
NoRepo == [owner |-> <<>>, name |-> <<>>, stars |-> 0, default_branch |-> "", pushed_at |-> ""]
NoCall == [current |-> 0, cached |-> FALSE]

\* queries = custom_queries or QUERY_TEMPLATES: the catalog the run was given
queries == mock.queries

\* queries[state.query_index]
query == queries[state.query_index + 1]

\* item["repository"]["full_name"] of the hit the for loop is at
full_name == data.items[idx]

\* owner, name = parts for the hit in progress
owner == SplitSlash(full_name)[1]
name == SplitSlash(full_name)[2]

\* the files save_configs_to_disk writes for one artifact, lines 543-550
ArtifactFiles(o, n) == { CacheFileName(o, n), MetaFileName(o, n) }

\* the directories the crawl can start against: artifacts saved earlier for some
\* of the seeded names, each with its companion .meta file
InitialDirs ==
    { UNION { ArtifactFiles(SplitSlash(f)[1], SplitSlash(f)[2]) : f \in fs }
      : fs \in SUBSET SeededNames }

----------------------------------------------------------------------------
(* The upstream.  A free upstream answers every exchange with any response  *)
(* (the dataset moves, faults come and go); a fixed mock answers the same    *)
(* request the same way every time.                                          *)

FreeMock ==
    [ fixed |-> FALSE,
      queries |-> Catalog,
      search |-> [q \in {"q1", "q2"} |-> <<>>],
      failing |-> [content |-> {}, metadata |-> {}],
      dir |-> {} ]

OkResponse == [status |-> 200, remaining |-> "?", body_rate_limit |-> FALSE]

\* an exchange of the search call together with the JSON body of a 200 response
SearchAnswers ==
    { [response |-> OkResponse, items |-> i, total_count |-> t]
        : i \in ItemLists, t \in TotalCounts }
    \cup { [response |-> r, items |-> <<>>, total_count |-> 0]
             : r \in Responses \ {OkResponse} }

\* the exchanges of a page beyond MaxVariedPage: any failure, an empty page, or
\* the hit a/b once more with a large total_count
DeepAnswers ==
    { a \in SearchAnswers :
        a.response = OkResponse =>
            \/ a.items = <<>>
            \/ a.items = << <<"a", "/", "b">> >> /\ a.total_count = 2000 }

\* self.client.get(CODE_SEARCH_URL, params={q, page, per_page}): what the
\* upstream answers for (query, state.page)
search_answers ==
    IF ~mock.fixed
    THEN IF state.page <= MaxVariedPage THEN SearchAnswers ELSE DeepAnswers
    ELSE IF state.page \in DOMAIN mock.search[query]
         THEN { mock.search[query][state.page] }
         ELSE { [response |-> OkResponse, items |-> <<>>, total_count |-> 0] }

\* the answer of a fixed mock to a repository call it fails
NotFound == [status |-> 404, remaining |-> "?", body_rate_limit |-> FALSE]

\* a dict without members
EmptyRecord == [f \in {} |-> 0]

\* self.client.get(f"{REPOS_URL}/{owner}/{name}"): a fixed mock answers with the
\* full record, or with 404 for the names in mock.failing.metadata
repo_info_answers ==
    IF ~mock.fixed
    THEN { [response |-> OkResponse, data |-> d] : d \in MetaRecords }
         \cup { [response |-> r, data |-> EmptyRecord] : r \in Responses \ {OkResponse} }
    ELSE IF full_name \in mock.failing.metadata
         THEN { [response |-> NotFound, data |-> EmptyRecord] }
         ELSE { [response |-> OkResponse, data |-> [f \in MetaFields |-> MetaValue[f]]] }

\* self.client.get(raw url): a fixed mock answers 404 for the names in
\* mock.failing.content
raw_content_answers ==
    IF ~mock.fixed THEN Responses
    ELSE IF full_name \in mock.failing.content THEN { NotFound } ELSE { OkResponse }

----------------------------------------------------------------------------
(* fetch_all and GitHubClient.fetch_configs_resumable *)

\* GitHubClient.__init__, lines 192-196: no request made yet; the clock reads the
\* time since the epoch, which is not less than the interval
NewClient ==
    /\ last_request_time = 0
    /\ now = min_request_interval
    /\ step = "idle"
    /\ throttled = FALSE
    /\ slept = FALSE

\* search_configs before its first statement, lines 279-281
SearchConfigsLocals == [seen_repos |-> {}, page |-> 1, fetched |-> 0]

\* search_configs is not running and no response is being classified
NoSearchConfigs ==
    /\ single = SearchConfigsLocals
    /\ http_response = OkResponse

\* fetch_all without --resume: a fresh state, no state file yet, on to the engine
InitProcess ==
    /\ state = FetchState
    /\ state_file = NoFile
    /\ max_repos \in 1..MaxCap
    /\ pc = "seed"
    /\ data = NoData
    /\ idx = 0
    /\ query_exhausted = FALSE
    /\ rate_limited = FALSE
    /\ attempt = 0
    /\ attempt_error = NoAttemptError
    /\ search_error = NoError
    /\ repo_info_result = NoResult
    /\ repo = NoRepo
    /\ yielded = <<>>
    /\ progress = NoCall
    /\ loaded = FetchState
    /\ NewClient
    /\ page_searched = FALSE
    /\ NoSearchConfigs

Init ==
    /\ InitProcess
    /\ output_dir \in InitialDirs
    /\ mock = FreeMock
    /\ phase = 0
    /\ one_pass = FetchState

\* state_callback(state): fetch_all's save_state
state_callback == state_file' = save(state')

\* lines 376-383 without the update of seen_repos
SeedFromDiskSkipped ==
    /\ pc = "seed"
    /\ state' = state
    /\ pc' = "outer"
    /\ UNCHANGED << state_file, output_dir, max_repos, locals, search_error,
                    yielded, progress, harness, governor, apart, page_searched >>

\* lines 376-383 with seen_repos replaced by the names on disk
SeedFromDiskReplaces ==
    /\ pc = "seed"
    /\ state' = [state EXCEPT !.seen_repos = get_cached_repos(output_dir)]
    /\ pc' = "outer"
    /\ UNCHANGED << state_file, output_dir, max_repos, locals, search_error,
                    yielded, progress, harness, governor, apart, page_searched >>

\* lines 376-383: seed the dedup ledger from the directory
SeedFromDisk ==
    /\ pc = "seed"
    /\ state' = [state EXCEPT !.seen_repos = @ \cup get_cached_repos(output_dir)]
    /\ pc' = "outer"
    /\ UNCHANGED << state_file, output_dir, max_repos, locals, search_error,
                    yielded, progress, harness, governor, apart, page_searched >>

\* an outer loop that stops after the first counted repository
OuterConditionStopsAfterFirstFetch ==
    state.query_index < Len(queries) /\ state.total_fetched < 1

\* where the crawl is in the catalog: (state.query_index, state.page)
Pointer(s) == << s.query_index, s.page >>

\* page_searched after a step: kept while the pointer stays where it is
searched_after == IF Pointer(state') = Pointer(state) THEN page_searched ELSE FALSE

\* the condition of the outer while loop, line 385
OuterCondition ==
    state.query_index < Len(queries) /\ state.total_fetched < max_repos

\* lines 388-391 with the strategy appended once more
SkipCompletedAppends ==
    /\ pc = "outer"
    /\ OuterCondition
    /\ query \in Range(state.completed_queries)
    /\ state' = [state EXCEPT !.completed_queries = Append(@, query),
                               !.query_index = @ + 1, !.page = 1]
    /\ page_searched' = searched_after
    /\ UNCHANGED << state_file, output_dir, max_repos, pc, locals, search_error,
                    yielded, progress, harness, governor, apart >>

\* lines 388-391: a strategy already in completed_queries is passed over
SkipCompleted ==
    /\ pc = "outer"
    /\ OuterCondition
    /\ query \in Range(state.completed_queries)
    /\ state' = [state EXCEPT !.query_index = @ + 1, !.page = 1]
    /\ page_searched' = searched_after
    /\ UNCHANGED << state_file, output_dir, max_repos, pc, locals, search_error,
                    yielded, progress, harness, governor, apart >>

\* lines 393-395 entered for a strategy whether completed or not
EnterQueryUnguarded ==
    /\ pc = "outer"
    /\ OuterCondition
    /\ query_exhausted' = FALSE
    /\ rate_limited' = FALSE
    /\ pc' = "inner"
    /\ UNCHANGED << state, state_file, output_dir, max_repos, data, idx,
                    attempt, attempt_error, repo_info_result, repo,
                    search_error, yielded, progress, harness, governor, apart,
                    page_searched >>

\* lines 393-395: enter the page walk of the active strategy
EnterQuery ==
    /\ pc = "outer"
    /\ OuterCondition
    /\ query \notin Range(state.completed_queries)
    /\ query_exhausted' = FALSE
    /\ rate_limited' = FALSE
    /\ pc' = "inner"
    /\ UNCHANGED << state, state_file, output_dir, max_repos, data, idx,
                    attempt, attempt_error, repo_info_result, repo,
                    search_error, yielded, progress, harness, governor, apart,
                    page_searched >>

\* line 385 false: the generator is exhausted
OuterExit ==
    /\ pc = "outer"
    /\ ~OuterCondition
    /\ pc' = "returned"
    /\ UNCHANGED << state, state_file, output_dir, max_repos, locals,
                    search_error, yielded, progress, harness, governor, apart,
                    page_searched >>

\* line 396 true: start the search call for (query, state.page)
InnerCall ==
    /\ pc = "inner"
    /\ state.total_fetched < max_repos
    /\ attempt' = 1
    /\ attempt_error' = NoAttemptError
    /\ pc' = "search"
    /\ UNCHANGED << state, state_file, output_dir, max_repos, data, idx,
                    query_exhausted, rate_limited, repo_info_result, repo,
                    search_error, yielded, progress, harness, governor, apart,
                    page_searched >>

\* line 396 false: the page walk ends with neither flag set
InnerExit ==
    /\ pc = "inner"
    /\ ~(state.total_fetched < max_repos)
    /\ pc' = "post_inner"
    /\ UNCHANGED << state, state_file, output_dir, max_repos, locals,
                    search_error, yielded, progress, harness, governor, apart,
                    page_searched >>

\* _code_search returns response.json(); lines 410-414
SearchReturns ==
    /\ pc = "search"
    /\ \E a \in search_answers :
          /\ check_rate_limit(a.response) = "none"
          /\ IF a.items = <<>>
             THEN /\ query_exhausted' = TRUE
                  /\ data' = NoData
                  /\ idx' = 0
                  /\ pc' = "post_inner"
             ELSE /\ query_exhausted' = query_exhausted
                  /\ data' = [items |-> a.items, total_count |-> a.total_count]
                  /\ idx' = 1
                  /\ pc' = "item"
    /\ attempt' = 0
    /\ attempt_error' = NoAttemptError
    /\ search_error' = NoError
    /\ page_searched' = TRUE
    /\ UNCHANGED << state, state_file, output_dir, max_repos, rate_limited,
                    repo_info_result, repo, yielded, progress, harness, governor, apart >>

\* an attempt of _code_search raises a retried exception and tenacity calls
\* again without counting the attempt: a retry without stop_after_attempt
SearchRetryForever ==
    /\ pc = "search"
    /\ attempt < SearchAttempts
    /\ \E a \in search_answers :
          /\ code_search_retries(check_rate_limit(a.response))
          /\ attempt_error' = [exception |-> check_rate_limit(a.response),
                               status |-> a.response.status]
    /\ attempt' = attempt
    /\ UNCHANGED << state, state_file, output_dir, max_repos, pc, data, idx,
                    query_exhausted, rate_limited, repo_info_result, repo,
                    search_error, yielded, progress, harness, governor, apart,
                    page_searched >>

\* an attempt of _code_search raises an exception its @retry retries, and the
\* attempt ceiling is not reached: tenacity waits and calls again
SearchRetry ==
    /\ pc = "search"
    /\ attempt < SearchAttempts
    /\ \E a \in search_answers :
          /\ code_search_retries(check_rate_limit(a.response))
          /\ attempt_error' = [exception |-> check_rate_limit(a.response),
                               status |-> a.response.status]
    /\ attempt' = attempt + 1
    /\ UNCHANGED << state, state_file, output_dir, max_repos, pc, data, idx,
                    query_exhausted, rate_limited, repo_info_result, repo,
                    search_error, yielded, progress, harness, governor, apart,
                    page_searched >>

\* the last allowed attempt raises a retried exception: tenacity raises
\* RetryError, which lines 405-408 catch
SearchRetryError ==
    /\ pc = "search"
    /\ attempt = SearchAttempts
    /\ \E a \in search_answers :
          /\ code_search_retries(check_rate_limit(a.response))
          /\ search_error' = [exception |-> "RetryError",
                              query_index |-> state.query_index,
                              page |-> state.page,
                              status |-> a.response.status]
    /\ rate_limited' = TRUE
    /\ attempt' = 0
    /\ attempt_error' = NoAttemptError
    /\ pc' = "post_inner"
    /\ UNCHANGED << state, state_file, output_dir, max_repos, data, idx,
                    query_exhausted, repo_info_result, repo, yielded, progress,
                    harness, governor, apart, page_searched >>

\* an attempt raises an exception the @retry does not retry: it leaves
\* _code_search as it is, no handler of lines 399-408 matches it, and it leaves
\* the generator and fetch_all
SearchRaises ==
    /\ pc = "search"
    /\ \E a \in search_answers :
          /\ check_rate_limit(a.response) # "none"
          /\ ~code_search_retries(check_rate_limit(a.response))
          /\ search_error' = [exception |-> check_rate_limit(a.response),
                              query_index |-> state.query_index,
                              page |-> state.page,
                              status |-> a.response.status]
    /\ attempt' = 0
    /\ attempt_error' = NoAttemptError
    /\ pc' = "raised"
    /\ UNCHANGED << state, state_file, output_dir, max_repos, data, idx,
                    query_exhausted, rate_limited, repo_info_result, repo,
                    yielded, progress, harness, governor, apart, page_searched >>

\* line 416 exhausted: every hit of the page was handled
ItemsDone ==
    /\ pc = "item"
    /\ idx > Len(data.items)
    /\ idx' = 0
    /\ pc' = "paginate"
    /\ UNCHANGED << state, state_file, output_dir, max_repos, data,
                    query_exhausted, rate_limited, attempt, attempt_error,
                    repo_info_result, repo, search_error, yielded, progress,
                    harness, governor, apart, page_searched >>

\* lines 417-418: the cap is reached with the hit at idx not yet handled; the
\* break leaves the for loop only, so line 485 comes next
CapBreak ==
    /\ pc = "item"
    /\ idx <= Len(data.items)
    /\ state.total_fetched >= max_repos
    /\ pc' = "paginate"
    /\ UNCHANGED << state, state_file, output_dir, max_repos, locals,
                    search_error, yielded, progress, harness, governor, apart,
                    page_searched >>

\* a ledger test that finds nothing
in_seen_repos_never(fn, seen_repos) == FALSE

\* line 424: full_name in state.seen_repos
in_seen_repos(fn, seen_repos) == fn \in seen_repos

\* lines 424-425: a name already in the ledger is passed over
SkipSeen ==
    /\ pc = "item"
    /\ idx <= Len(data.items)
    /\ state.total_fetched < max_repos
    /\ in_seen_repos(full_name, state.seen_repos)
    /\ idx' = idx + 1
    /\ UNCHANGED << state, state_file, output_dir, max_repos, pc, data,
                    query_exhausted, rate_limited, attempt, attempt_error,
                    repo_info_result, repo, search_error, yielded, progress,
                    harness, governor, apart, page_searched >>

\* a hit handled with neither the ledger test of line 424 nor the disk test of
\* line 434: every hit goes on to the metadata call
NewHitUnguarded ==
    /\ pc = "item"
    /\ idx <= Len(data.items)
    /\ state.total_fetched < max_repos
    /\ Len(SplitSlash(full_name)) = 2
    /\ state' = [state EXCEPT !.seen_repos = @ \cup {full_name}]
    /\ attempt' = 1
    /\ attempt_error' = NoAttemptError
    /\ pc' = "repo_info"
    /\ UNCHANGED << state_file, output_dir, max_repos, data, idx,
                    query_exhausted, rate_limited, repo_info_result, repo,
                    search_error, yielded, progress, harness, governor, apart,
                    page_searched >>

\* lines 426-441 without the cap test of lines 417-418
NewHitBeyondCap ==
    /\ pc = "item"
    /\ idx <= Len(data.items)
    /\ ~in_seen_repos(full_name, state.seen_repos)
    /\ IF Len(SplitSlash(full_name)) # 2
       THEN /\ state' = [state EXCEPT !.seen_repos = @ \cup {full_name}]
            /\ idx' = idx + 1
            /\ UNCHANGED << pc, attempt, attempt_error, progress >>
       ELSE IF CacheFileName(owner, name) \in output_dir
       THEN /\ state' = [state EXCEPT !.seen_repos = @ \cup {full_name},
                                      !.total_fetched = @ + 1]
            /\ progress' = [current |-> state.total_fetched + 1, cached |-> TRUE]
            /\ idx' = idx + 1
            /\ UNCHANGED << pc, attempt, attempt_error >>
       ELSE /\ state' = [state EXCEPT !.seen_repos = @ \cup {full_name}]
            /\ attempt' = 1
            /\ attempt_error' = NoAttemptError
            /\ pc' = "repo_info"
            /\ UNCHANGED << idx, progress >>
    /\ UNCHANGED << state_file, output_dir, max_repos, data, query_exhausted,
                    rate_limited, repo_info_result, repo, search_error, yielded,
                    harness, governor, apart, page_searched >>

\* lines 426-441: a new name enters the ledger; a malformed one is dropped, one
\* whose artifact file exists is counted without any remote call, any other goes
\* on to the metadata call
NewHit ==
    /\ pc = "item"
    /\ idx <= Len(data.items)
    /\ state.total_fetched < max_repos
    /\ ~in_seen_repos(full_name, state.seen_repos)
    /\ IF Len(SplitSlash(full_name)) # 2
       THEN /\ state' = [state EXCEPT !.seen_repos = @ \cup {full_name}]
            /\ idx' = idx + 1
            /\ UNCHANGED << pc, attempt, attempt_error, progress >>
       ELSE IF CacheFileName(owner, name) \in output_dir
       THEN /\ state' = [state EXCEPT !.seen_repos = @ \cup {full_name},
                                      !.total_fetched = @ + 1]
            /\ progress' = [current |-> state.total_fetched + 1, cached |-> TRUE]
            /\ idx' = idx + 1
            /\ UNCHANGED << pc, attempt, attempt_error >>
       ELSE /\ state' = [state EXCEPT !.seen_repos = @ \cup {full_name}]
            /\ attempt' = 1
            /\ attempt_error' = NoAttemptError
            /\ pc' = "repo_info"
            /\ UNCHANGED << idx, progress >>
    /\ UNCHANGED << state_file, output_dir, max_repos, data, query_exhausted,
                    rate_limited, repo_info_result, repo, search_error, yielded,
                    harness, governor, apart, page_searched >>

\* lines 445-447 and 453-460: the RepoInfo built from repo_info_data
RepoInfoOf(repo_info_data) ==
    [ owner |-> owner, name |-> name,
      stars |-> dict_get(repo_info_data, "stargazers_count", 0),
      default_branch |-> dict_get(repo_info_data, "default_branch", "main"),
      pushed_at |-> dict_get(repo_info_data, "pushed_at", "") ]

\* lines 448-451 and 453-460: the RepoInfo built when _get_repo_info raised
RepoInfoDefault ==
    [ owner |-> owner, name |-> name,
      stars |-> 0, default_branch |-> "main", pushed_at |-> "" ]

\* _get_repo_info returns response.json()
RepoInfoReturns ==
    /\ pc = "repo_info"
    /\ \E a \in repo_info_answers :
          /\ check_rate_limit(a.response) = "none"
          /\ repo_info_result' = [exception |-> "none", data |-> a.data]
          /\ repo' = RepoInfoOf(a.data)
    /\ attempt' = 1
    /\ attempt_error' = NoAttemptError
    /\ pc' = "raw_content"
    /\ UNCHANGED << state, state_file, output_dir, max_repos, data, idx,
                    query_exhausted, rate_limited, search_error, yielded,
                    progress, harness, governor, apart, page_searched >>

\* an attempt of _get_repo_info raises HTTPStatusError below the attempt ceiling
RepoInfoRetry ==
    /\ pc = "repo_info"
    /\ attempt < RepoAttempts
    /\ \E a \in repo_info_answers : repo_call_retries(check_rate_limit(a.response))
    /\ attempt' = attempt + 1
    /\ attempt_error' = [exception |-> "HTTPStatusError", status |-> NoStatus]
    /\ UNCHANGED << state, state_file, output_dir, max_repos, pc, data, idx,
                    query_exhausted, rate_limited, repo_info_result, repo,
                    search_error, yielded, progress, harness, governor, apart,
                    page_searched >>

\* the exception that leaves _get_repo_info for an attempt that raised exc:
\* RetryError at the attempt ceiling, exc itself when the @retry does not retry it
repo_info_raises(exc) ==
    IF repo_call_retries(exc) THEN "RetryError" ELSE exc

\* a metadata failure handled like a content failure: the hit is dropped
RepoInfoFailsSkips ==
    /\ pc = "repo_info"
    /\ \E a \in repo_info_answers :
          LET exc == check_rate_limit(a.response) IN
          /\ exc # "none"
          /\ repo_call_retries(exc) => attempt = RepoAttempts
    /\ state' = [state EXCEPT !.failed_repos = @ \cup {full_name}]
    /\ idx' = idx + 1
    /\ attempt' = 0
    /\ attempt_error' = NoAttemptError
    /\ pc' = "item"
    /\ UNCHANGED << state_file, output_dir, max_repos, data, query_exhausted,
                    rate_limited, repo_info_result, repo, search_error, yielded,
                    progress, harness, governor, apart, page_searched >>

\* _get_repo_info raises; except Exception of lines 448-451 substitutes defaults
RepoInfoFails ==
    /\ pc = "repo_info"
    /\ \E a \in repo_info_answers :
          LET exc == check_rate_limit(a.response) IN
          /\ exc # "none"
          /\ repo_call_retries(exc) => attempt = RepoAttempts
          /\ repo_info_result' = [exception |-> repo_info_raises(exc),
                                  data |-> EmptyRecord]
    /\ repo' = RepoInfoDefault
    /\ attempt' = 1
    /\ attempt_error' = NoAttemptError
    /\ pc' = "raw_content"
    /\ UNCHANGED << state, state_file, output_dir, max_repos, data, idx,
                    query_exhausted, rate_limited, search_error, yielded,
                    progress, harness, governor, apart, page_searched >>

\* lines 466-478 without the progress callback of lines 469-472
RawContentReturnsSilent ==
    /\ pc = "raw_content"
    /\ \E response \in raw_content_answers : raise_for_status(response) = "none"
    /\ state' = [state EXCEPT !.total_fetched = @ + 1]
    /\ progress' = progress
    /\ IF state'.total_fetched % CheckpointEvery = 0
       THEN state_callback
       ELSE state_file' = state_file
    /\ yielded' = Append(yielded, full_name)
    /\ attempt' = 0
    /\ attempt_error' = NoAttemptError
    /\ pc' = "yielded"
    /\ UNCHANGED << output_dir, max_repos, data, idx, query_exhausted,
                    rate_limited, repo_info_result, repo, search_error, harness,
                    governor, apart, page_searched >>

\* lines 466-478 without the increment of line 466
RawContentReturnsUncounted ==
    /\ pc = "raw_content"
    /\ \E response \in raw_content_answers : raise_for_status(response) = "none"
    /\ state' = state
    /\ progress' = [current |-> state.total_fetched + 1, cached |-> FALSE]
    /\ IF state'.total_fetched % CheckpointEvery = 0
       THEN state_callback
       ELSE state_file' = state_file
    /\ yielded' = Append(yielded, full_name)
    /\ attempt' = 0
    /\ attempt_error' = NoAttemptError
    /\ pc' = "yielded"
    /\ UNCHANGED << output_dir, max_repos, data, idx, query_exhausted,
                    rate_limited, repo_info_result, repo, search_error, harness,
                    governor, apart, page_searched >>

\* _get_raw_content returns; lines 466-478 up to the yield
RawContentReturns ==
    /\ pc = "raw_content"
    /\ \E response \in raw_content_answers : raise_for_status(response) = "none"
    /\ state' = [state EXCEPT !.total_fetched = @ + 1]
    /\ progress' = [current |-> state.total_fetched + 1, cached |-> FALSE]
    /\ IF state'.total_fetched % CheckpointEvery = 0
       THEN state_callback
       ELSE state_file' = state_file
    /\ yielded' = Append(yielded, full_name)
    /\ attempt' = 0
    /\ attempt_error' = NoAttemptError
    /\ pc' = "yielded"
    /\ UNCHANGED << output_dir, max_repos, data, idx, query_exhausted,
                    rate_limited, repo_info_result, repo, search_error, harness,
                    governor, apart, page_searched >>

\* an attempt of _get_raw_content raises HTTPStatusError below the attempt ceiling
RawContentRetry ==
    /\ pc = "raw_content"
    /\ attempt < RepoAttempts
    /\ \E response \in raw_content_answers :
          repo_call_retries(raise_for_status(response))
    /\ attempt' = attempt + 1
    /\ attempt_error' = [exception |-> "HTTPStatusError", status |-> NoStatus]
    /\ UNCHANGED << state, state_file, output_dir, max_repos, pc, data, idx,
                    query_exhausted, rate_limited, repo_info_result, repo,
                    search_error, yielded, progress, harness, governor, apart,
                    page_searched >>

\* a content failure that is not caught: it leaves the generator
RawContentFailsRaises ==
    /\ pc = "raw_content"
    /\ \E response \in raw_content_answers :
          LET exc == raise_for_status(response) IN
          /\ exc # "none"
          /\ repo_call_retries(exc) => attempt = RepoAttempts
    /\ attempt' = 0
    /\ attempt_error' = NoAttemptError
    /\ pc' = "raised"
    /\ UNCHANGED << state, state_file, output_dir, max_repos, data, idx,
                    query_exhausted, rate_limited, repo_info_result, repo,
                    search_error, yielded, progress, harness, governor, apart,
                    page_searched >>

\* _get_raw_content raises (RetryError at the attempt ceiling, or an exception
\* that is not retried); lines 480-482
RawContentFails ==
    /\ pc = "raw_content"
    /\ \E response \in raw_content_answers :
          LET exc == raise_for_status(response) IN
          /\ exc # "none"
          /\ repo_call_retries(exc) => attempt = RepoAttempts
    /\ state' = [state EXCEPT !.failed_repos = @ \cup {full_name}]
    /\ idx' = idx + 1
    /\ attempt' = 0
    /\ attempt_error' = NoAttemptError
    /\ repo_info_result' = NoResult
    /\ repo' = NoRepo
    /\ pc' = "item"
    /\ UNCHANGED << state_file, output_dir, max_repos, data, query_exhausted,
                    rate_limited, search_error, yielded, progress, harness,
                    governor, apart, page_searched >>

\* the consumer of the yielded artifact: save_configs_to_disk writes the two
\* files, fetch_all counts it, and the generator is resumed after the yield
ConsumerSaves ==
    /\ pc = "yielded"
    /\ output_dir' = output_dir \cup ArtifactFiles(repo.owner, repo.name)
    /\ idx' = idx + 1
    /\ repo_info_result' = NoResult
    /\ repo' = NoRepo
    /\ pc' = "item"
    /\ UNCHANGED << state, state_file, max_repos, data, query_exhausted,
                    rate_limited, attempt, attempt_error, search_error, yielded,
                    progress, harness, governor, apart, page_searched >>

\* line 486 without the page ceiling
PaginationLimitByCountOnly == state.page * PerPage >= data.total_count

\* line 486
PaginationLimit ==
    state.page * PerPage >= data.total_count \/ state.page >= PageCeiling

\* lines 486-489
PageLimit ==
    /\ pc = "paginate"
    /\ PaginationLimit
    /\ query_exhausted' = TRUE
    /\ pc' = "post_inner"
    /\ UNCHANGED << state, state_file, output_dir, max_repos, data, idx,
                    rate_limited, attempt, attempt_error, repo_info_result,
                    repo, search_error, yielded, progress, harness, governor, apart,
                    page_searched >>

\* lines 490-494 with the page left as it is
NextPageStays ==
    /\ pc = "paginate"
    /\ ~PaginationLimit
    /\ state' = state
    /\ state_callback
    /\ data' = NoData
    /\ idx' = 0
    /\ pc' = "inner"
    /\ page_searched' = searched_after
    /\ UNCHANGED << output_dir, max_repos, query_exhausted, rate_limited,
                    attempt, attempt_error, repo_info_result, repo,
                    search_error, yielded, progress, harness, governor, apart >>

\* lines 490-494 without the checkpoint
NextPageUnsaved ==
    /\ pc = "paginate"
    /\ ~PaginationLimit
    /\ state' = [state EXCEPT !.page = @ + 1]
    /\ data' = NoData
    /\ idx' = 0
    /\ pc' = "inner"
    /\ page_searched' = searched_after
    /\ UNCHANGED << state_file, output_dir, max_repos, query_exhausted,
                    rate_limited, attempt, attempt_error, repo_info_result,
                    repo, search_error, yielded, progress, harness, governor, apart >>

\* lines 490-494: the page-boundary checkpoint
NextPage ==
    /\ pc = "paginate"
    /\ ~PaginationLimit
    /\ state' = [state EXCEPT !.page = @ + 1]
    /\ state_callback
    /\ data' = NoData
    /\ idx' = 0
    /\ pc' = "inner"
    /\ page_searched' = searched_after
    /\ UNCHANGED << output_dir, max_repos, query_exhausted, rate_limited,
                    attempt, attempt_error, repo_info_result, repo,
                    search_error, yielded, progress, harness, governor, apart >>

\* lines 496-507 with the strategy marked completed after a halt as well
PostInnerCompletesHalted ==
    /\ pc = "post_inner"
    /\ IF query_exhausted \/ rate_limited
       THEN state' = [state EXCEPT !.completed_queries = Append(@, query),
                                   !.query_index = @ + 1,
                                   !.page = 1]
       ELSE state' = state
    /\ state_callback
    /\ data' = NoData
    /\ idx' = 0
    /\ pc' = IF rate_limited THEN "returned" ELSE "outer"
    /\ page_searched' = searched_after
    /\ UNCHANGED << output_dir, max_repos, query_exhausted, rate_limited,
                    attempt, attempt_error, repo_info_result, repo,
                    search_error, yielded, progress, harness, governor, apart >>

\* lines 496-507 without the reset of page at line 500
PostInnerKeepsPage ==
    /\ pc = "post_inner"
    /\ IF query_exhausted
       THEN state' = [state EXCEPT !.completed_queries = Append(@, query),
                                   !.query_index = @ + 1]
       ELSE state' = state
    /\ state_callback
    /\ data' = NoData
    /\ idx' = 0
    /\ pc' = IF rate_limited THEN "returned" ELSE "outer"
    /\ page_searched' = searched_after
    /\ UNCHANGED << output_dir, max_repos, query_exhausted, rate_limited,
                    attempt, attempt_error, repo_info_result, repo,
                    search_error, yielded, progress, harness, governor, apart >>

\* lines 496-507 with the return of line 507 taken whether rate limited or not
PostInnerAlwaysReturns ==
    /\ pc = "post_inner"
    /\ IF query_exhausted
       THEN state' = [state EXCEPT !.completed_queries = Append(@, query),
                                   !.query_index = @ + 1,
                                   !.page = 1]
       ELSE state' = state
    /\ state_callback
    /\ data' = NoData
    /\ idx' = 0
    /\ pc' = "returned"
    /\ page_searched' = searched_after
    /\ UNCHANGED << output_dir, max_repos, query_exhausted, rate_limited,
                    attempt, attempt_error, repo_info_result, repo,
                    search_error, yielded, progress, harness, governor, apart >>

\* lines 496-507: the strategy-boundary checkpoint, and the return when rate limited
PostInner ==
    /\ pc = "post_inner"
    /\ IF query_exhausted
       THEN state' = [state EXCEPT !.completed_queries = Append(@, query),
                                   !.query_index = @ + 1,
                                   !.page = 1]
       ELSE state' = state
    /\ state_callback
    /\ data' = NoData
    /\ idx' = 0
    /\ pc' = IF rate_limited THEN "returned" ELSE "outer"
    /\ page_searched' = searched_after
    /\ UNCHANGED << output_dir, max_repos, query_exhausted, rate_limited,
                    attempt, attempt_error, repo_info_result, repo,
                    search_error, yielded, progress, harness, governor, apart >>

\* fetch_all after the generator is exhausted, without the save of line 589
FinalSaveSkipped ==
    /\ pc = "returned"
    /\ state_file' = state_file
    /\ pc' = "exit"
    /\ UNCHANGED << state, output_dir, max_repos, locals, search_error, yielded,
                    progress, harness, governor, apart, page_searched >>

\* fetch_all after the generator is exhausted: __main__.py line 589
FinalSave ==
    /\ pc = "returned"
    /\ state_file' = save(state)
    /\ pc' = "exit"
    /\ UNCHANGED << state, output_dir, max_repos, locals, search_error, yielded,
                    progress, harness, governor, apart, page_searched >>

\* fetch_all run again with --resume after the process ended: the state is
\* loaded, and the run ends at once when every strategy is done
\* (__main__.py lines 491-529)
Resume ==
    /\ pc \in {"exit", "raised", "interrupted"}
    /\ phase # 1
    /\ state' = load(state_file)
    /\ pc' = IF state_file # NoFile /\ state'.query_index >= Len(queries)
             THEN "exit" ELSE "seed"
    /\ data' = NoData
    /\ idx' = 0
    /\ query_exhausted' = FALSE
    /\ rate_limited' = FALSE
    /\ attempt' = 0
    /\ attempt_error' = NoAttemptError
    /\ repo_info_result' = NoResult
    /\ repo' = NoRepo
    /\ progress' = NoCall
    /\ page_searched' = FALSE
    /\ UNCHANGED << state_file, output_dir, max_repos, search_error, yielded,
                    harness, governor, apart >>

Next ==
    \/ SeedFromDisk
    \/ SkipCompleted
    \/ EnterQuery
    \/ OuterExit
    \/ InnerCall
    \/ InnerExit
    \/ SearchReturns
    \/ SearchRetry
    \/ SearchRetryError
    \/ SearchRaises
    \/ ItemsDone
    \/ CapBreak
    \/ SkipSeen
    \/ NewHit
    \/ RepoInfoReturns
    \/ RepoInfoRetry
    \/ RepoInfoFails
    \/ RawContentReturns
    \/ RawContentRetry
    \/ RawContentFails
    \/ ConsumerSaves
    \/ PageLimit
    \/ NextPage
    \/ PostInner
    \/ FinalSave
    \/ Resume

Spec == Init /\ [][Next]_vars

\* the steps of a process of fetch_all from its start to its end: Next without
\* the start of another process
NextCrawl ==
    \/ SeedFromDisk
    \/ SkipCompleted
    \/ EnterQuery
    \/ OuterExit
    \/ InnerCall
    \/ InnerExit
    \/ SearchReturns
    \/ SearchRetry
    \/ SearchRetryError
    \/ SearchRaises
    \/ ItemsDone
    \/ CapBreak
    \/ SkipSeen
    \/ NewHit
    \/ RepoInfoReturns
    \/ RepoInfoRetry
    \/ RepoInfoFails
    \/ RawContentReturns
    \/ RawContentRetry
    \/ RawContentFails
    \/ ConsumerSaves
    \/ PageLimit
    \/ NextPage
    \/ PostInner
    \/ FinalSave

\* every remote call returns or fails in finite time and the interpreter goes
\* on to the next statement: a running process takes a step whenever it has
\* one; whether the operator starts another process with --resume is left open
SpecTermination == Init /\ [][Next]_vars /\ WF_vars(NextCrawl)

----------------------------------------------------------------------------
(* A crawl to the end of the catalog, then fetch_all run once more with      *)
(* --resume --reset-queries.                                                 *)

\* lines 496-503 of __main__.py with seen_repos emptied as well
ResumeResetForgets ==
    /\ pc = "exit"
    /\ phase = 0
    /\ state_file # NoFile
    /\ load(state_file).query_index = Len(queries)
    /\ loaded' = load(state_file)
    /\ state' = [load(state_file) EXCEPT !.query_index = 0, !.page = 1,
                                         !.completed_queries = <<>>,
                                         !.seen_repos = {}]
    /\ phase' = 4
    /\ pc' = "seed"
    /\ data' = NoData
    /\ idx' = 0
    /\ query_exhausted' = FALSE
    /\ rate_limited' = FALSE
    /\ attempt' = 0
    /\ attempt_error' = NoAttemptError
    /\ repo_info_result' = NoResult
    /\ repo' = NoRepo
    /\ progress' = NoCall
    /\ page_searched' = FALSE
    /\ UNCHANGED << state_file, output_dir, max_repos, search_error, yielded,
                    mock, one_pass, governor, apart >>

\* fetch_all --resume --reset-queries after a crawl that finished its catalog:
\* the state is loaded and its pointer and completed_queries are reset, and the
\* test for a finished catalog of lines 518-529 is not made (__main__.py lines
\* 491-503); phase 4 marks the process that follows
ResumeReset ==
    /\ pc = "exit"
    /\ phase = 0
    /\ state_file # NoFile
    /\ load(state_file).query_index = Len(queries)
    /\ loaded' = load(state_file)
    /\ state' = [load(state_file) EXCEPT !.query_index = 0, !.page = 1,
                                         !.completed_queries = <<>>]
    /\ phase' = 4
    /\ pc' = "seed"
    /\ data' = NoData
    /\ idx' = 0
    /\ query_exhausted' = FALSE
    /\ rate_limited' = FALSE
    /\ attempt' = 0
    /\ attempt_error' = NoAttemptError
    /\ repo_info_result' = NoResult
    /\ repo' = NoRepo
    /\ progress' = NoCall
    /\ page_searched' = FALSE
    /\ UNCHANGED << state_file, output_dir, max_repos, search_error, yielded,
                    mock, one_pass, governor, apart >>

NextReset ==
    \/ NextCrawl
    \/ ResumeReset

\* the crawl before the reset runs with the largest cap
InitReset == Init /\ max_repos = MaxCap

SpecReset == InitReset /\ [][NextReset]_vars

----------------------------------------------------------------------------
(* One crawl against a fixed mock of the upstream, run twice: once in one    *)
(* pass, then again from the same directory and a fresh state with the       *)
(* process interrupted at page boundaries and resumed.                        *)

\* the answers a fixed mock gives for one (strategy, page)
CellAnswers ==
    { [response |-> OkResponse,
       items |-> << <<"a", "/", "b">>, <<"c", "/", "d">> >>, total_count |-> 2000],
      [response |-> OkResponse,
       items |-> << <<"c", "/", "d">> >>, total_count |-> 150],
      [response |-> OkResponse,
       items |-> << <<"a", "/", "b">> >>, total_count |-> 1],
      [response |-> [status |-> 403, remaining |-> "0", body_rate_limit |-> FALSE],
       items |-> <<>>, total_count |-> 0],
      [response |-> [status |-> NoStatus, remaining |-> "?", body_rate_limit |-> FALSE],
       items |-> <<>>, total_count |-> 0] }

\* which repository calls a fixed mock fails: none, the content of c/d, or the
\* metadata of a/b
Failings ==
    { [content |-> {}, metadata |-> {}],
      [content |-> { <<"c", "/", "d">> }, metadata |-> {}],
      [content |-> {}, metadata |-> { <<"a", "/", "b">> }] }

\* a fixed mock scripts two pages of q1 and at most one page of q2; a page it
\* does not script has no hits
FixedMocks ==
    { [fixed |-> TRUE,
       queries |-> c,
       search |-> [q \in {"q1", "q2"} |-> IF q = "q1" THEN <<c1, c2>> ELSE p2],
       failing |-> f,
       dir |-> d]
      : c \in Catalogs, c1 \in CellAnswers, c2 \in CellAnswers,
        p2 \in { <<>> } \cup { <<c3>> : c3 \in CellAnswers },
        f \in Failings, d \in InitialDirs }

InitResume ==
    /\ InitProcess
    /\ mock \in FixedMocks
    /\ output_dir = mock.dir
    /\ phase = 1
    /\ one_pass = FetchState

\* the one-pass crawl has ended: keep its final state, and start the crawl again
\* from the same directory with a fresh state and no state file
StartInterruptedRun ==
    /\ phase = 1
    /\ pc \in {"exit", "raised"}
    /\ one_pass' = state
    /\ phase' = 2
    /\ state' = FetchState
    /\ state_file' = NoFile
    /\ output_dir' = mock.dir
    /\ pc' = "seed"
    /\ data' = NoData
    /\ idx' = 0
    /\ query_exhausted' = FALSE
    /\ rate_limited' = FALSE
    /\ attempt' = 0
    /\ attempt_error' = NoAttemptError
    /\ repo_info_result' = NoResult
    /\ repo' = NoRepo
    /\ search_error' = NoError
    /\ yielded' = <<>>
    /\ progress' = NoCall
    /\ page_searched' = FALSE
    /\ UNCHANGED << max_repos, mock, loaded, governor, apart >>

\* KeyboardInterrupt right after the page-boundary checkpoint of line 494:
\* fetch_all saves the state and exits (__main__.py lines 581-586)
InterruptAtPageBoundary ==
    /\ phase \in {2, 3}
    /\ pc = "inner"
    /\ state.page > 1
    /\ state_file' = save(state)
    /\ phase' = 3
    /\ pc' = "interrupted"
    /\ UNCHANGED << state, output_dir, max_repos, locals, search_error, yielded,
                    progress, mock, one_pass, loaded, governor, apart, page_searched >>

NextResume ==
    \/ Next
    \/ StartInterruptedRun
    \/ InterruptAtPageBoundary

SpecResume == InitResume /\ [][NextResume]_vars

----------------------------------------------------------------------------
(* The crawl with an external interrupt allowed wherever fetch_all is inside *)
(* its try block.                                                             *)

\* the positions inside the try block of __main__.py lines 569-579
InsideTry ==
    { "seed", "outer", "inner", "search", "item", "repo_info", "raw_content",
      "yielded", "paginate", "post_inner" }

\* KeyboardInterrupt: fetch_all saves the state and exits
\* (__main__.py lines 581-586)
Interrupt ==
    /\ pc \in InsideTry
    /\ state_file' = save(state)
    /\ pc' = "interrupted"
    /\ data' = NoData
    /\ idx' = 0
    /\ query_exhausted' = FALSE
    /\ rate_limited' = FALSE
    /\ attempt' = 0
    /\ attempt_error' = NoAttemptError
    /\ repo_info_result' = NoResult
    /\ repo' = NoRepo
    /\ progress' = NoCall
    /\ page_searched' = FALSE
    /\ UNCHANGED << state, output_dir, max_repos, search_error, yielded, harness,
                    governor, apart >>

NextInterrupt ==
    \/ Next
    \/ Interrupt

SpecInterrupt == Init /\ [][NextInterrupt]_vars

----------------------------------------------------------------------------
(* FetchState through to_dict/from_dict and through save/load, for any state *)
(* and any order list(set) may produce.                                       *)

\* the FetchState values the round trip is applied to
FetchStates ==
    [ query_index : 0..Len(queries),
      page : 1..2,
      total_fetched : 0..MaxCap,
      seen_repos : SUBSET FullNames,
      failed_repos : SUBSET (FullNames \ { <<"x">> }),
      completed_queries : { <<>>, <<"q1">>, <<"q1", "q2">> } ]

\* self.to_dict() for every order the two list(...) calls may produce
to_dicts(self) ==
    { to_dict(self, sl, fl) : sl \in Enumerations(self.seen_repos),
                              fl \in Enumerations(self.failed_repos) }

InitRoundTrip ==
    /\ mock = FreeMock
    /\ state \in FetchStates
    /\ state_file = NoFile
    /\ loaded = FetchState
    /\ pc = "round_trip"
    /\ output_dir = {}
    /\ max_repos = 1
    /\ data = NoData
    /\ idx = 0
    /\ query_exhausted = FALSE
    /\ rate_limited = FALSE
    /\ attempt = 0
    /\ attempt_error = NoAttemptError
    /\ search_error = NoError
    /\ repo_info_result = NoResult
    /\ repo = NoRepo
    /\ yielded = <<>>
    /\ progress = NoCall
    /\ phase = 0
    /\ one_pass = FetchState
    /\ NewClient
    /\ page_searched = FALSE
    /\ NoSearchConfigs

\* FetchState.from_dict(s.to_dict())

FromDictOfToDict ==
    /\ pc = "round_trip"
    /\ \E d \in to_dicts(state) : loaded' = from_dict(d)
    /\ pc' = "from_dict"
    /\ UNCHANGED << state, state_file, output_dir, max_repos, locals,
                    search_error, yielded, progress, mock, phase, one_pass,
                    governor, apart, page_searched >>

\* s.save(path)
Save ==
    /\ pc = "round_trip"
    /\ \E d \in to_dicts(state) : state_file' = json_dumps(d)
    /\ pc' = "saved"
    /\ UNCHANGED << state, output_dir, max_repos, locals, search_error, yielded,
                    progress, harness, governor, apart, page_searched >>

\* FetchState.load(path)
Load ==
    /\ pc = "saved"
    /\ loaded' = load(state_file)
    /\ pc' = "loaded"
    /\ UNCHANGED << state, state_file, output_dir, max_repos, locals,
                    search_error, yielded, progress, mock, phase, one_pass,
                    governor, apart, page_searched >>

NextRoundTrip ==
    \/ FromDictOfToDict
    \/ Save
    \/ Load

SpecRoundTrip == InitRoundTrip /\ [][NextRoundTrip]_vars

----------------------------------------------------------------------------
(* save_configs_to_disk followed by _get_cached_repos on the same directory, *)
(* for any artifacts written in any order.                                    *)

\* the owners and repository names of the artifacts written: plain ones, an
\* owner with an inner underscore, names that start with an underscore, hold
\* "__" themselves or end in a suffix
Owners == { <<"a">>, <<"a", "_", "b">> }
Names == { <<"b">>, <<"_", "b">>, <<"b", "_", "_", "c">>, <<"b", ".meta">> }

\* config.repo of the ConfigFile values handed to save_configs_to_disk
RepoIdentifiers == [ owner : Owners, name : Names ]

\* f"{owner}/{name}"
FullNameOf(id) == id.owner \o <<"/">> \o id.name

InitCacheIndex ==
    /\ mock = FreeMock
    /\ state = FetchState
    /\ state_file = NoFile
    /\ loaded = FetchState
    /\ pc = "save_configs"
    /\ output_dir = {}
    /\ max_repos = 1
    /\ data = NoData
    /\ idx = 0
    /\ query_exhausted = FALSE
    /\ rate_limited = FALSE
    /\ attempt = 0
    /\ attempt_error = NoAttemptError
    /\ search_error = NoError
    /\ repo_info_result = NoResult
    /\ repo = NoRepo
    /\ yielded = <<>>
    /\ progress = NoCall
    /\ phase = 0
    /\ one_pass = FetchState
    /\ NewClient
    /\ page_searched = FALSE
    /\ NoSearchConfigs

\* one turn of the for loop of save_configs_to_disk: the two files of the
\* config are written, then the config is yielded on
SaveConfig ==
    /\ pc = "save_configs"
    /\ Len(yielded) < MaxSaved
    /\ \E id \in RepoIdentifiers :
          /\ output_dir' = output_dir \cup ArtifactFiles(id.owner, id.name)
          /\ yielded' = Append(yielded, FullNameOf(id))
    /\ pc' = "save_configs"
    /\ UNCHANGED << state, state_file, max_repos, locals, search_error,
                    progress, harness, governor, apart, page_searched >>

\* seen_repos.update(self._get_cached_repos(output_dir)) on an empty seen_repos
GetCachedRepos ==
    /\ pc = "save_configs"
    /\ state' = [state EXCEPT !.seen_repos = @ \cup get_cached_repos(output_dir)]
    /\ pc' = "cached"
    /\ UNCHANGED << state_file, output_dir, max_repos, locals, search_error,
                    yielded, progress, harness, governor, apart, page_searched >>

NextCacheIndex ==
    \/ SaveConfig
    \/ GetCachedRepos

SpecCacheIndex == InitCacheIndex /\ [][NextCacheIndex]_vars

----------------------------------------------------------------------------
(* _check_rate_limit applied to one response, for any status, any            *)
(* X-RateLimit-Remaining header and any body text.                            *)

\* response.status_code: success, redirect, client and server error statuses
Statuses == {200, 201, 204, 301, 401, 403, 404, 422, 429, 500}

\* response.headers.get("X-RateLimit-Remaining", "?"): "?" when the header is
\* absent
RemainingValues == {"0", "?", "59"}

\* response.text as a sequence of phrases, the phrase of line 219 in three
\* spellings
BodyTexts ==
    { <<>>, <<"Forbidden">>, <<"API", "rate limit", "exceeded">>,
      <<"API", "Rate Limit", "exceeded">>, <<"RATE LIMIT">> }

HttpResponses == [status : Statuses, remaining : RemainingValues, text : BodyTexts]

\* str.lower that leaves the text as it is
lower_verbatim(text) == text

\* str.lower on a text
lower(text) ==
    [ i \in DOMAIN text |->
        CASE text[i] \in {"Rate Limit", "RATE LIMIT"} -> "rate limit"
          [] text[i] = "API" -> "api"
          [] text[i] = "Forbidden" -> "forbidden"
          [] OTHER -> text[i] ]

\* the marks lines 215-219 read from the response
MarksOf(r) ==
    [ status |-> r.status,
      remaining |-> r.remaining,
      body_rate_limit |-> "rate limit" \in Range(lower(r.text)) ]

InitCheckRateLimit ==
    /\ mock = FreeMock
    /\ state = FetchState
    /\ state_file = NoFile
    /\ loaded = FetchState
    /\ pc = "check_rate_limit"
    /\ output_dir = {}
    /\ max_repos = 1
    /\ data = NoData
    /\ idx = 0
    /\ query_exhausted = FALSE
    /\ rate_limited = FALSE
    /\ attempt = 1
    /\ attempt_error = NoAttemptError
    /\ search_error = NoError
    /\ repo_info_result = NoResult
    /\ repo = NoRepo
    /\ yielded = <<>>
    /\ progress = NoCall
    /\ phase = 0
    /\ one_pass = FetchState
    /\ NewClient
    /\ page_searched = FALSE
    /\ single = SearchConfigsLocals
    /\ http_response \in HttpResponses

\* self._check_rate_limit(response): what it raises, "none" when it returns
CheckRateLimit ==
    /\ pc = "check_rate_limit"
    /\ attempt_error' = [exception |-> check_rate_limit(MarksOf(http_response)),
                         status |-> http_response.status]
    /\ pc' = "checked"
    /\ UNCHANGED << state, state_file, output_dir, max_repos, data, idx,
                    query_exhausted, rate_limited, attempt, repo_info_result,
                    repo, search_error, yielded, progress, harness, governor,
                    page_searched, apart >>

NextCheckRateLimit == CheckRateLimit

SpecCheckRateLimit == InitCheckRateLimit /\ [][NextCheckRateLimit]_vars

----------------------------------------------------------------------------
(* GitHubClient.search_configs, and fetch_configs which delegates to it: one *)
(* query, no state object, no directory, no checkpoint.                      *)

\* what search_configs neither reads nor writes
engine == << state, state_file, output_dir, query_exhausted, rate_limited,
             harness, governor, http_response >>

\* self.client.get(CODE_SEARCH_URL, params={q, page, per_page}) for single.page
single_search_answers ==
    IF single.page <= MaxVariedPage THEN SearchAnswers ELSE DeepAnswers

\* lines 279-281: the call of search_configs, before the first loop test
InitSearchConfigs ==
    /\ state = FetchState
    /\ state_file = NoFile
    /\ output_dir = {}
    /\ max_repos \in 1..MaxCap
    /\ pc = "sc_while"
    /\ data = NoData
    /\ idx = 0
    /\ query_exhausted = FALSE
    /\ rate_limited = FALSE
    /\ attempt = 0
    /\ attempt_error = NoAttemptError
    /\ search_error = NoError
    /\ repo_info_result = NoResult
    /\ repo = NoRepo
    /\ yielded = <<>>
    /\ progress = NoCall
    /\ mock = FreeMock
    /\ phase = 0
    /\ one_pass = FetchState
    /\ loaded = FetchState
    /\ NewClient
    /\ page_searched = FALSE
    /\ single = SearchConfigsLocals
    /\ http_response = OkResponse

\* line 283 true: start the search call for single.page
WhileCall ==
    /\ pc = "sc_while"
    /\ single.fetched < max_repos
    /\ attempt' = 1
    /\ attempt_error' = NoAttemptError
    /\ pc' = "sc_search"
    /\ UNCHANGED << engine, max_repos, single, data, idx, repo_info_result, repo,
                    search_error, yielded, progress, page_searched >>

\* line 283 false: the generator is exhausted
WhileExit ==
    /\ pc = "sc_while"
    /\ ~(single.fetched < max_repos)
    /\ pc' = "sc_done"
    /\ UNCHANGED << engine, max_repos, single, data, idx, attempt, attempt_error,
                    repo_info_result, repo, search_error, yielded, progress,
                    page_searched >>

\* _code_search returns response.json(); lines 292-294: an empty page ends the
\* stream
CodeSearchReturns ==
    /\ pc = "sc_search"
    /\ \E a \in single_search_answers :
          /\ check_rate_limit(a.response) = "none"
          /\ IF a.items = <<>>
             THEN /\ data' = NoData
                  /\ idx' = 0
                  /\ pc' = "sc_done"
             ELSE /\ data' = [items |-> a.items, total_count |-> a.total_count]
                  /\ idx' = 1
                  /\ pc' = "sc_for"
    /\ attempt' = 0
    /\ attempt_error' = NoAttemptError
    /\ search_error' = NoError
    /\ page_searched' = TRUE
    /\ UNCHANGED << engine, max_repos, single, repo_info_result, repo, yielded,
                    progress >>

\* an attempt of _code_search raises an exception its @retry retries, below the
\* attempt ceiling
CodeSearchRetry ==
    /\ pc = "sc_search"
    /\ attempt < SearchAttempts
    /\ \E a \in single_search_answers :
          /\ code_search_retries(check_rate_limit(a.response))
          /\ attempt_error' = [exception |-> check_rate_limit(a.response),
                               status |-> a.response.status]
    /\ attempt' = attempt + 1
    /\ UNCHANGED << engine, max_repos, single, pc, data, idx, repo_info_result,
                    repo, search_error, yielded, progress, page_searched >>

\* the last allowed attempt raises a retried exception: tenacity raises
\* RetryError, which is no httpx.HTTPStatusError, so the handler of lines
\* 286-290 does not match and the error leaves the generator
CodeSearchRetryError ==
    /\ pc = "sc_search"
    /\ attempt = SearchAttempts
    /\ \E a \in single_search_answers :
          /\ code_search_retries(check_rate_limit(a.response))
          /\ search_error' = [exception |-> "RetryError",
                              query_index |-> 0,
                              page |-> single.page,
                              status |-> a.response.status]
    /\ attempt' = 0
    /\ attempt_error' = NoAttemptError
    /\ pc' = "sc_raised"
    /\ UNCHANGED << engine, max_repos, single, data, idx, repo_info_result, repo,
                    yielded, progress, page_searched >>

\* an attempt raises an exception the @retry does not retry: it leaves the
\* generator
CodeSearchRaises ==
    /\ pc = "sc_search"
    /\ \E a \in single_search_answers :
          /\ check_rate_limit(a.response) # "none"
          /\ ~code_search_retries(check_rate_limit(a.response))
          /\ search_error' = [exception |-> check_rate_limit(a.response),
                              query_index |-> 0,
                              page |-> single.page,
                              status |-> a.response.status]
    /\ attempt' = 0
    /\ attempt_error' = NoAttemptError
    /\ pc' = "sc_raised"
    /\ UNCHANGED << engine, max_repos, single, data, idx, repo_info_result, repo,
                    yielded, progress, page_searched >>

\* line 296 exhausted: every hit of the page was handled
ForDone ==
    /\ pc = "sc_for"
    /\ idx > Len(data.items)
    /\ idx' = 0
    /\ pc' = "sc_paginate"
    /\ UNCHANGED << engine, max_repos, single, data, attempt, attempt_error,
                    repo_info_result, repo, search_error, yielded, progress,
                    page_searched >>

\* lines 297-298: the cap is reached inside the page
ForCapBreak ==
    /\ pc = "sc_for"
    /\ idx <= Len(data.items)
    /\ single.fetched >= max_repos
    /\ pc' = "sc_paginate"
    /\ UNCHANGED << engine, max_repos, single, data, idx, attempt, attempt_error,
                    repo_info_result, repo, search_error, yielded, progress,
                    page_searched >>

\* lines 304-305: a name already in seen_repos is passed over
ForSkipSeen ==
    /\ pc = "sc_for"
    /\ idx <= Len(data.items)
    /\ single.fetched < max_repos
    /\ full_name \in single.seen_repos
    /\ idx' = idx + 1
    /\ UNCHANGED << engine, max_repos, single, pc, data, attempt, attempt_error,
                    repo_info_result, repo, search_error, yielded, progress,
                    page_searched >>

\* lines 306-311 without the test of line 304: every hit is handled
ForNewHitUnguarded ==
    /\ pc = "sc_for"
    /\ idx <= Len(data.items)
    /\ single.fetched < max_repos
    /\ single' = [single EXCEPT !.seen_repos = @ \cup {full_name}]
    /\ IF Len(SplitSlash(full_name)) # 2
       THEN /\ idx' = idx + 1
            /\ UNCHANGED << pc, attempt, attempt_error >>
       ELSE /\ attempt' = 1
            /\ attempt_error' = NoAttemptError
            /\ pc' = "sc_repo_info"
            /\ idx' = idx
    /\ UNCHANGED << engine, max_repos, data, repo_info_result, repo,
                    search_error, yielded, progress, page_searched >>

\* lines 306-311: a new name enters seen_repos; a malformed one is dropped, any
\* other goes on to the metadata call
ForNewHit ==
    /\ pc = "sc_for"
    /\ idx <= Len(data.items)
    /\ single.fetched < max_repos
    /\ full_name \notin single.seen_repos
    /\ single' = [single EXCEPT !.seen_repos = @ \cup {full_name}]
    /\ IF Len(SplitSlash(full_name)) # 2
       THEN /\ idx' = idx + 1
            /\ UNCHANGED << pc, attempt, attempt_error >>
       ELSE /\ attempt' = 1
            /\ attempt_error' = NoAttemptError
            /\ pc' = "sc_repo_info"
            /\ idx' = idx
    /\ UNCHANGED << engine, max_repos, data, repo_info_result, repo,
                    search_error, yielded, progress, page_searched >>

\* lines 314-334: _get_repo_info returns, the RepoInfo is built and the progress
\* callback is called with fetched + 1
SingleRepoInfoReturns ==
    /\ pc = "sc_repo_info"
    /\ \E a \in repo_info_answers :
          /\ check_rate_limit(a.response) = "none"
          /\ repo_info_result' = [exception |-> "none", data |-> a.data]
          /\ repo' = RepoInfoOf(a.data)
    /\ progress' = [current |-> single.fetched + 1, cached |-> FALSE]
    /\ attempt' = 1
    /\ attempt_error' = NoAttemptError
    /\ pc' = "sc_raw_content"
    /\ UNCHANGED << engine, max_repos, single, data, idx, search_error, yielded,
                    page_searched >>

\* an attempt of _get_repo_info raises HTTPStatusError below the attempt ceiling
SingleRepoInfoRetry ==
    /\ pc = "sc_repo_info"
    /\ attempt < RepoAttempts
    /\ \E a \in repo_info_answers : repo_call_retries(check_rate_limit(a.response))
    /\ attempt' = attempt + 1
    /\ attempt_error' = [exception |-> "HTTPStatusError", status |-> NoStatus]
    /\ UNCHANGED << engine, max_repos, single, pc, data, idx, repo_info_result,
                    repo, search_error, yielded, progress, page_searched >>

\* _get_repo_info raises; except Exception of lines 319-322 substitutes defaults
SingleRepoInfoFails ==
    /\ pc = "sc_repo_info"
    /\ \E a \in repo_info_answers :
          LET exc == check_rate_limit(a.response) IN
          /\ exc # "none"
          /\ repo_call_retries(exc) => attempt = RepoAttempts
          /\ repo_info_result' = [exception |-> repo_info_raises(exc),
                                  data |-> EmptyRecord]
    /\ repo' = RepoInfoDefault
    /\ progress' = [current |-> single.fetched + 1, cached |-> FALSE]
    /\ attempt' = 1
    /\ attempt_error' = NoAttemptError
    /\ pc' = "sc_raw_content"
    /\ UNCHANGED << engine, max_repos, single, data, idx, search_error, yielded,
                    page_searched >>

\* lines 338-341: _get_raw_content returns, fetched is counted and the artifact
\* is yielded
SingleRawContentReturns ==
    /\ pc = "sc_raw_content"
    /\ \E response \in raw_content_answers : raise_for_status(response) = "none"
    /\ single' = [single EXCEPT !.fetched = @ + 1]
    /\ yielded' = Append(yielded, full_name)
    /\ attempt' = 0
    /\ attempt_error' = NoAttemptError
    /\ pc' = "sc_yielded"
    /\ UNCHANGED << engine, max_repos, data, idx, repo_info_result, repo,
                    search_error, progress, page_searched >>

\* an attempt of _get_raw_content raises HTTPStatusError below the ceiling
SingleRawContentRetry ==
    /\ pc = "sc_raw_content"
    /\ attempt < RepoAttempts
    /\ \E response \in raw_content_answers :
          repo_call_retries(raise_for_status(response))
    /\ attempt' = attempt + 1
    /\ attempt_error' = [exception |-> "HTTPStatusError", status |-> NoStatus]
    /\ UNCHANGED << engine, max_repos, single, pc, data, idx, repo_info_result,
                    repo, search_error, yielded, progress, page_searched >>

\* _get_raw_content raises; lines 342-344 skip the hit
SingleRawContentFails ==
    /\ pc = "sc_raw_content"
    /\ \E response \in raw_content_answers :
          LET exc == raise_for_status(response) IN
          /\ exc # "none"
          /\ repo_call_retries(exc) => attempt = RepoAttempts
    /\ idx' = idx + 1
    /\ attempt' = 0
    /\ attempt_error' = NoAttemptError
    /\ repo_info_result' = NoResult
    /\ repo' = NoRepo
    /\ pc' = "sc_for"
    /\ UNCHANGED << engine, max_repos, single, data, search_error, yielded,
                    progress, page_searched >>

\* the consumer takes the artifact and asks for the next one
ConsumerNext ==
    /\ pc = "sc_yielded"
    /\ idx' = idx + 1
    /\ repo_info_result' = NoResult
    /\ repo' = NoRepo
    /\ pc' = "sc_for"
    /\ UNCHANGED << engine, max_repos, single, data, attempt, attempt_error,
                    search_error, yielded, progress, page_searched >>

\* line 348
SinglePaginationLimit ==
    single.page * PerPage >= data.total_count \/ single.page >= PageCeiling

\* lines 347-350: the last page of the query
SinglePageLimit ==
    /\ pc = "sc_paginate"
    /\ SinglePaginationLimit
    /\ pc' = "sc_done"
    /\ UNCHANGED << engine, max_repos, single, data, idx, attempt, attempt_error,
                    repo_info_result, repo, search_error, yielded, progress,
                    page_searched >>

\* line 351: on to the next page
SingleNextPage ==
    /\ pc = "sc_paginate"
    /\ ~SinglePaginationLimit
    /\ single' = [single EXCEPT !.page = @ + 1]
    /\ page_searched' = FALSE
    /\ pc' = "sc_while"
    /\ UNCHANGED << engine, max_repos, data, idx, attempt, attempt_error,
                    repo_info_result, repo, search_error, yielded, progress >>

NextSearchConfigs ==
    \/ WhileCall
    \/ WhileExit
    \/ CodeSearchReturns
    \/ CodeSearchRetry
    \/ CodeSearchRetryError
    \/ CodeSearchRaises
    \/ ForDone
    \/ ForCapBreak
    \/ ForSkipSeen
    \/ ForNewHit
    \/ SingleRepoInfoReturns
    \/ SingleRepoInfoRetry
    \/ SingleRepoInfoFails
    \/ SingleRawContentReturns
    \/ SingleRawContentRetry
    \/ SingleRawContentFails
    \/ ConsumerNext
    \/ SinglePageLimit
    \/ SingleNextPage

SpecSearchConfigs == InitSearchConfigs /\ [][NextSearchConfigs]_vars

----------------------------------------------------------------------------
(* The client alone: its three remote calls made in any order by a caller,   *)
(* with the clock and the throttle of lines 207-212.                         *)

\* everything the client specification leaves alone
crawl == << state, state_file, output_dir, max_repos, data, idx, query_exhausted,
            rate_limited, attempt_error, search_error, repo_info_result, repo,
            yielded, progress, harness, page_searched, apart >>

InitClient ==
    /\ mock = FreeMock
    /\ state = FetchState
    /\ state_file = NoFile
    /\ loaded = FetchState
    /\ pc = "idle"
    /\ output_dir = {}
    /\ max_repos = 1
    /\ data = NoData
    /\ idx = 0
    /\ query_exhausted = FALSE
    /\ rate_limited = FALSE
    /\ attempt = 0
    /\ attempt_error = NoAttemptError
    /\ search_error = NoError
    /\ repo_info_result = NoResult
    /\ repo = NoRepo
    /\ yielded = <<>>
    /\ progress = NoCall
    /\ phase = 0
    /\ one_pass = FetchState
    /\ NewClient
    /\ page_searched = FALSE
    /\ NoSearchConfigs

\* time passes

Tick ==
    /\ now < MaxTime
    /\ now' = now + 1
    /\ UNCHANGED << crawl, pc, attempt, last_request_time, step, throttled, slept >>

\* a caller calls _code_search: the first attempt starts at line 230
CallCodeSearch ==
    /\ pc = "idle"
    /\ pc' = "search"
    /\ attempt' = 1
    /\ step' = "throttle"
    /\ UNCHANGED << crawl, now, last_request_time, throttled, slept >>

\* a caller calls _get_repo_info: the first attempt starts at line 245
CallGetRepoInfo ==
    /\ pc = "idle"
    /\ pc' = "repo_info"
    /\ attempt' = 1
    /\ step' = "throttle"
    /\ UNCHANGED << crawl, now, last_request_time, throttled, slept >>

\* a caller calls _get_raw_content: the first attempt starts at the request of
\* line 258
CallGetRawContent ==
    /\ pc = "idle"
    /\ pc' = "raw_content"
    /\ attempt' = 1
    /\ step' = "request"
    /\ UNCHANGED << crawl, now, last_request_time, throttled, slept >>

\* _rate_limit_wait, lines 209-211: time.sleep returns no earlier than asked
RateLimitWait ==
    /\ step = "throttle"
    /\ LET elapsed == now - last_request_time IN
       IF must_sleep(elapsed)
       THEN /\ \E t \in (now + (min_request_interval - elapsed))..MaxTime : now' = t
            /\ slept' = TRUE
       ELSE /\ now' = now
            /\ slept' = FALSE
    /\ step' = "record"
    /\ UNCHANGED << crawl, pc, attempt, last_request_time, throttled >>

\* _rate_limit_wait, line 212
RateLimitRecord ==
    /\ step = "record"
    /\ last_request_time' = now
    /\ throttled' = TRUE
    /\ step' = "request"
    /\ UNCHANGED << crawl, pc, attempt, now, slept >>

\* lines 231-236: the request of one attempt of _code_search and its outcome
CodeSearchRequest ==
    /\ pc = "search"
    /\ step = "request"
    /\ \E response \in Responses :
          IF code_search_retries(check_rate_limit(response)) /\ attempt < SearchAttempts
          THEN attempt' = attempt + 1 /\ step' = "throttle" /\ pc' = pc
          ELSE attempt' = 0 /\ step' = "idle" /\ pc' = "idle"
    /\ throttled' = FALSE
    /\ UNCHANGED << crawl, now, last_request_time, slept >>

\* lines 246-248: the request of one attempt of _get_repo_info and its outcome
GetRepoInfoRequest ==
    /\ pc = "repo_info"
    /\ step = "request"
    /\ \E response \in Responses :
          IF repo_call_retries(check_rate_limit(response)) /\ attempt < RepoAttempts
          THEN attempt' = attempt + 1 /\ step' = "throttle" /\ pc' = pc
          ELSE attempt' = 0 /\ step' = "idle" /\ pc' = "idle"
    /\ throttled' = FALSE
    /\ UNCHANGED << crawl, now, last_request_time, slept >>

\* lines 258-260: the request of one attempt of _get_raw_content and its outcome
GetRawContentRequest ==
    /\ pc = "raw_content"
    /\ step = "request"
    /\ \E response \in Responses :
          IF repo_call_retries(raise_for_status(response)) /\ attempt < RepoAttempts
          THEN attempt' = attempt + 1 /\ step' = "request" /\ pc' = pc
          ELSE attempt' = 0 /\ step' = "idle" /\ pc' = "idle"
    /\ throttled' = FALSE
    /\ UNCHANGED << crawl, now, last_request_time, slept >>

NextClient ==
    \/ Tick
    \/ CallCodeSearch
    \/ CallGetRepoInfo
    \/ CallGetRawContent
    \/ RateLimitWait
    \/ RateLimitRecord
    \/ CodeSearchRequest
    \/ GetRepoInfoRequest
    \/ GetRawContentRequest

SpecClient == InitClient /\ [][NextClient]_vars

----------------------------------------------------------------------------
(* Properties *)

\* C1: over all processes that share the state file and the artifact directory,
\* a halt and a later resume included, the sequence of yielded artifacts never
\* names the same repository twice.
C1_NoRepositoryYieldedTwice ==
    \A i, j \in 1..Len(yielded) : yielded[i] = yielded[j] => i = j

\* a resumed process meets a hit whose artifact an earlier process yielded
C1_Witness ==
    /\ pc = "item"
    /\ idx \in 1..Len(data.items)
    /\ progress = NoCall
    /\ full_name \in Range(yielded)

\* C2: against a fixed mock, a crawl interrupted after page-boundary checkpoints
\* and resumed ends with the total_fetched and the seen_repos of the one-pass
\* crawl.
C2_ResumeIdempotent ==
    (phase \in {2, 3} /\ pc \in {"exit", "raised"}) =>
        /\ state.total_fetched = one_pass.total_fetched
        /\ state.seen_repos = one_pass.seen_repos

\* a crawl interrupted at a page boundary ends in a resumed process that fetched
\* its second artifact
C2_Witness ==
    /\ phase = 3
    /\ pc = "exit"
    /\ progress = [current |-> 2, cached |-> FALSE]
    /\ state.total_fetched = 2

\* what ended the page walk, as seen when line 497 is reached
EndedBy422 == search_error.exception # "none" /\ search_error.status = 422
EndedByEmptyPage ==
    data = NoData /\ search_error = NoError /\ state.total_fetched < max_repos
EndedByPaginationLimit == data # NoData /\ PaginationLimit

\* C3: the active strategy is appended to completed_queries if and only if its
\* page walk ended on a 422 response, an empty page, page*100 >= total_count or
\* page >= 10; it is never appended on the pass that ends with a rate-limit halt,
\* and nothing but the end of a page walk appends.
C3_Original ==
    [][ /\ pc = "post_inner" =>
              ( state'.completed_queries = Append(state.completed_queries, query)
                <=> (EndedBy422 \/ EndedByEmptyPage \/ EndedByPaginationLimit) )
        /\ (pc = "post_inner" /\ rate_limited /\ ~EndedBy422) =>
              state'.completed_queries = state.completed_queries
        /\ pc # "post_inner" => state'.completed_queries = state.completed_queries
      ]_vars

\* C4: when the search call for strategy i, page p ends in the rate-limit halt,
\* the process makes no further remote call, query_index and page stay i and p,
\* strategy i stays out of completed_queries, the state file holds that point,
\* and the first search call of the next process is for strategy i at page p.
C4_RateLimitHaltKeepsResumePoint ==
    /\ rate_limited => pc \in {"post_inner", "returned", "exit"}
    /\ search_error.exception = "RetryError" =>
          /\ pc \in {"post_inner", "returned", "exit", "seed", "outer", "inner",
                     "search"}
          /\ state.query_index = search_error.query_index
          /\ state.page = search_error.page
          /\ query \notin Range(state.completed_queries)
          /\ pc # "post_inner" =>
                /\ state_file # NoFile
                /\ load(state_file).query_index = search_error.query_index
                /\ load(state_file).page = search_error.page
                /\ load(state_file).completed_queries = state.completed_queries

\* the first search call of a process resumed after a rate-limit halt on page 2
\* of the first strategy
C4_Witness ==
    /\ pc = "search"
    /\ attempt = 1
    /\ search_error.exception = "RetryError"
    /\ search_error.status = 403
    /\ search_error.query_index = 0
    /\ search_error.page = 2

\* the hit the for loop is at is about to be handled, and its artifact file
\* was in the directory before this crawl yielded anything for it
HitWithArtifactOnDisk ==
    /\ pc = "item"
    /\ idx \in 1..Len(data.items)
    /\ state.total_fetched < max_repos
    /\ Len(SplitSlash(full_name)) = 2
    /\ CacheFileName(owner, name) \in output_dir
    /\ full_name \notin Range(yielded)

\* C5: a hit whose artifact file already exists, artifacts on disk when the
\* crawl started included, adds one to total_fetched, is in seen_repos, is
\* reported through the progress callback as cached, and causes neither a
\* metadata call, nor a content call, nor a yield.
C5_Original ==
    [][ HitWithArtifactOnDisk =>
          /\ state'.total_fetched = state.total_fetched + 1
          /\ full_name \in state'.seen_repos
          /\ progress' = [current |-> state.total_fetched + 1, cached |-> TRUE]
          /\ pc' \notin {"repo_info", "raw_content", "yielded"}
          /\ yielded' = yielded
      ]_vars

\* C6: a search call that ends on a 422 response exhausts the active strategy:
\* the strategy is appended to completed_queries, query_index advances, page is
\* reset to 1, and the crawl goes on to the next strategy instead of stopping
\* as for a rate limit.
C6_Original ==
    [][ (pc = "post_inner" /\ EndedBy422) =>
          /\ state'.completed_queries = Append(state.completed_queries, query)
          /\ state'.query_index = state.query_index + 1
          /\ state'.page = 1
          /\ pc' = "outer"
      ]_vars

\* the cap is reached while the page still has a hit that was not handled
CapReachedMidPage ==
    /\ pc \in {"item", "paginate", "post_inner"}
    /\ state.total_fetched >= max_repos
    /\ idx \in 1..Len(data.items)

\* C7: once total_fetched reaches max_repos in the middle of a page that still
\* has unhandled hits, no further remote call is made, the strategy is not
\* appended to completed_queries, and query_index and page do not advance.
C7_Original ==
    [][ CapReachedMidPage =>
          /\ pc' \notin {"search", "repo_info", "raw_content"}
          /\ state'.completed_queries = state.completed_queries
          /\ state'.query_index = state.query_index
          /\ state'.page = state.page
      ]_vars

\* C8: from_dict(to_dict(s)) and load after save give back s: the three scalars,
\* the two collections as sets, and completed_queries as a list.
C8_FetchStateRoundTrip ==
    pc \in {"from_dict", "loaded"} => loaded = state

\* a state with three seen names, two failed ones, a page other than the
\* default and two completed strategies was saved and loaded
C8_Witness ==
    /\ pc = "loaded"
    /\ Cardinality(state.seen_repos) = 3
    /\ Cardinality(state.failed_repos) = 2
    /\ state.page = 2
    /\ state.total_fetched = 2
    /\ Len(state.completed_queries) = 2

\* C9: when the content call for a hit fails, the name is added to
\* failed_repos, nothing is yielded, total_fetched is unchanged, and the for
\* loop goes on to the next hit with the flags of the page walk untouched; a
\* strategy whose pages are exhausted is appended to completed_queries whatever
\* failed_repos holds.
C9_ContentFailureAbsorbed ==
    [][ /\ (pc = "raw_content" /\ pc' \notin {"raw_content", "yielded"}) =>
              /\ state' = [state EXCEPT !.failed_repos = @ \cup {full_name}]
              /\ yielded' = yielded
              /\ state_file' = state_file
              /\ pc' = "item"
              /\ idx' = idx + 1
              /\ data' = data
              /\ query_exhausted' = query_exhausted
              /\ rate_limited' = rate_limited
        /\ (pc = "post_inner" /\ query_exhausted /\ state.failed_repos # {}) =>
              state'.completed_queries = Append(state.completed_queries, query)
      ]_vars

\* the only match of the first strategy failed its content call: no artifact,
\* nothing counted, and the strategy completed
C9_Witness ==
    /\ state.failed_repos = { <<"a", "/", "b">> }
    /\ yielded = <<>>
    /\ state.total_fetched = 0
    /\ state.completed_queries = <<"q1">>

\* C10: when the metadata call ends, by an exception or by a record, the
\* content call comes next and the state is untouched; the RepoInfo carries
\* stars 0, branch "main" and pushed_at "" after an exception, and the default
\* of each field the record lacks otherwise.
C10_MetadataFailureDefaults ==
    [][ (pc = "repo_info" /\ pc' # "repo_info") =>
          /\ pc' = "raw_content"
          /\ attempt' = 1
          /\ state' = state
          /\ yielded' = yielded
          /\ LET r == repo_info_result'
                 has(f) == r.exception = "none" /\ f \in DOMAIN r.data
             IN  /\ repo'.stars =
                        IF has("stargazers_count") THEN r.data["stargazers_count"] ELSE 0
                 /\ repo'.default_branch =
                        IF has("default_branch") THEN r.data["default_branch"] ELSE "main"
                 /\ repo'.pushed_at =
                        IF has("pushed_at") THEN r.data["pushed_at"] ELSE ""
      ]_vars

\* an artifact is yielded with the default metadata after the metadata call
\* was rate limited
C10_Witness ==
    /\ pc = "yielded"
    /\ repo_info_result.exception = "RateLimitError"
    /\ repo.stars = 0
    /\ repo.default_branch = "main"
    /\ repo.pushed_at = ""

\* the step ends the search call with a failure whose last response had status st
SearchEndsOn(st) ==
    /\ pc = "search"
    /\ pc' # "search"
    /\ search_error'.exception # "none"
    /\ search_error'.status = st

\* C11: a search call answered by a server error (HTTP 500) on every attempt is
\* retried up to the attempt ceiling and then fails towards the caller of
\* fetch_configs_resumable: the generator raises, it does not go on to the
\* normal return of the rate-limit halt.
C11_Original ==
    [][ (SearchEndsOn(500) /\ (attempt > 1 => attempt_error.status = 500)) =>
          /\ attempt = SearchAttempts
          /\ pc' = "raised"
          /\ ~rate_limited'
      ]_vars

\* C12: a search attempt rejected for authentication (HTTP 401) is not followed
\* by another attempt, and the call ends by raising to the caller of
\* fetch_configs_resumable instead of leading to a normal return.
C12_Original ==
    [][ pc = "search" =>
          /\ attempt_error'.status # 401
          /\ SearchEndsOn(401) => (pc' = "raised" /\ ~rate_limited')
      ]_vars

\* C15: a search call makes at most 5 attempts, a metadata or content call at
\* most 3; an attempt beyond the first follows a transient failure only (HTTP
\* status error, and for search also the rate-limit signal); a call that failed
\* on every attempt up to the ceiling ends in RetryError, and a call ended by a
\* failure that is not retried ends in that failure, never in RetryError.
C15_RetryCeilings ==
    [][ /\ pc = "search" =>
              /\ attempt \in 1..SearchAttempts
              /\ attempt > 1 =>
                    attempt_error.exception \in {"HTTPStatusError", "RateLimitError"}
        /\ pc \in {"repo_info", "raw_content"} =>
              /\ attempt \in 1..RepoAttempts
              /\ attempt > 1 => attempt_error.exception = "HTTPStatusError"
        /\ (pc = "search" /\ pc' # "search" /\ search_error'.exception # "none") =>
              IF search_error'.status \in {422, 401, 403, 500}
              THEN search_error'.exception = "RetryError" /\ attempt = SearchAttempts
              ELSE search_error'.exception = "TransportError"
        /\ (pc = "repo_info" /\ pc' # "repo_info") =>
              (repo_info_result'.exception = "RetryError" => attempt = RepoAttempts)
      ]_vars

\* a search call gave up after its fifth attempt was answered by a server error
C15_Witness ==
    /\ pc = "post_inner"
    /\ search_error.exception = "RetryError"
    /\ search_error.status = 500

\* C16: a metadata call that receives the rate-limit signal is retried up to
\* its ceiling and, when still rate limited, halts the crawl: no content call
\* and no later request follows, and the resume point is kept.
C16_Original ==
    [][ ( /\ pc = "repo_info"
          /\ pc' # "repo_info"
          /\ repo_info_result'.exception = "RateLimitError" ) =>
          /\ attempt = RepoAttempts
          /\ rate_limited'
          /\ pc' \notin {"raw_content", "search"}
          /\ state'.query_index = state.query_index
          /\ state'.page = state.page
          /\ state'.completed_queries = state.completed_queries
      ]_vars

\* the state a resume would start from: the last checkpoint, or the fresh state
\* the first run started from
Checkpointed == load(state_file)

\* C17: whenever a search call is in progress, the last checkpoint has the
\* completed_queries and the page of the in-memory state, and its query_index
\* is separated from the in-memory one by completed strategies only: a resume
\* from it searches the page in progress first, never an earlier page or
\* strategy.
C17_CheckpointAtMostOnePageBehind ==
    pc = "search" =>
        /\ Checkpointed.completed_queries = state.completed_queries
        /\ Checkpointed.page = state.page
        /\ Checkpointed.query_index <= state.query_index
        /\ \A k \in (Checkpointed.query_index + 1)..state.query_index :
              queries[k] \in Range(state.completed_queries)

\* a search for page 2 is in progress after an artifact was counted on page 1
C17_Witness ==
    /\ pc = "search"
    /\ state.page = 2
    /\ state_file # NoFile
    /\ state.total_fetched = 1
    /\ Checkpointed.total_fetched = 1

\* C18: when an interrupt ends the process, the state file holds the state as
\* it was at that moment, and every repository counted in total_fetched as
\* freshly fetched has its artifact file in the directory.
C18_Original ==
    pc = "interrupted" =>
        /\ load(state_file) = state
        /\ \A n \in Range(yielded) :
              CacheFileName(SplitSlash(n)[1], SplitSlash(n)[2]) \in output_dir

\* the scenario of C19: catalog [q1, q2], max_repos = 2, a fresh state, an
\* empty directory, a mock whose first page of q1 is the single hit a/b with
\* total_count 1 (no further page of q1 is requested) and which has no hit for
\* q2, and no failing repository call
C19_Scenario ==
    /\ phase = 1
    /\ mock.fixed
    /\ mock.queries = <<"q1", "q2">>
    /\ mock.search["q1"][1] =
          [response |-> OkResponse, items |-> << <<"a", "/", "b">> >>, total_count |-> 1]
    /\ mock.search["q2"] = <<>>
    /\ mock.failing = [content |-> {}, metadata |-> {}]
    /\ mock.dir = {}
    /\ max_repos = 2

\* the generator of the scenario has returned
C19_Ended == C19_Scenario /\ pc \in {"returned", "exit"}

\* C19: in the scenario the crawl never raises, and when it has returned it has
\* yielded exactly one artifact, for a/b, with total_fetched = 1; since the cap
\* of 2 is not reached the engine went on to q2, whose empty page completes it:
\* completed_queries = [q1, q2] and query_index = 2.
C19_ScenarioOutcome ==
    /\ C19_Scenario => pc # "raised"
    /\ C19_Ended =>
          /\ yielded = << <<"a", "/", "b">> >>
          /\ state.total_fetched = 1
          /\ state.completed_queries = <<"q1", "q2">>
          /\ state.query_index = 2

\* the scenario has run to its end and the state file holds the final state
C19_Witness ==
    /\ C19_Scenario
    /\ pc = "exit"
    /\ yielded = << <<"a", "/", "b">> >>
    /\ load(state_file) = state

\* C19 as stated: the scenario ends with completed_queries = [q1] and
\* query_index = 1.
C19_Original ==
    C19_Ended =>
        /\ yielded = << <<"a", "/", "b">> >>
        /\ state.total_fetched = 1
        /\ state.completed_queries = <<"q1">>
        /\ state.query_index = 1

\* C20: after a non-empty page p with total_count T the strategy is marked
\* exhausted exactly when p*100 >= T or p >= 10, and otherwise page becomes p+1
\* with the same strategy active and the page walk entered again; leaving the
\* page walk of an exhausted strategy appends it to completed_queries, advances
\* query_index by one and resets page to 1; no search call is started with
\* page > 10.
C20_ExhaustionRule ==
    [][ /\ (pc = "paginate" /\ pc' # "paginate") =>
              IF state.page * PerPage >= data.total_count \/ state.page >= PageCeiling
              THEN /\ query_exhausted'
                   /\ pc' = "post_inner"
                   /\ state' = state
              ELSE /\ ~query_exhausted'
                   /\ pc' = "inner"
                   /\ state'.page = state.page + 1
                   /\ state'.query_index = state.query_index
                   /\ state'.completed_queries = state.completed_queries
        /\ (pc = "post_inner" /\ pc' # "post_inner" /\ query_exhausted) =>
              /\ state'.completed_queries =
                    Append(state.completed_queries, queries[state.query_index + 1])
              /\ state'.query_index = state.query_index + 1
              /\ state'.page = 1
        /\ pc' = "search" => state'.page <= PageCeiling
      ]_vars

\* a strategy is marked exhausted by the page ceiling alone: page 10 of a
\* result set that reports more than 1000 matches
C20_Witness ==
    /\ pc = "post_inner"
    /\ query_exhausted
    /\ data # NoData
    /\ state.page = PageCeiling
    /\ state.page * PerPage < data.total_count

\* the step issues an outbound request: self.client.get of lines 231, 246, 258
OutboundRequest == step = "request" /\ step' # "request"

\* C13: every outbound request of the client (each attempt of the search, the
\* metadata and the content call) is preceded by a completed _rate_limit_wait
\* with no other outbound request in between.
C13_Original == [][ OutboundRequest => throttled ]_vars

\* C14: each completion of _rate_limit_wait records the time of the clock as
\* the last permitted call, that time is at least the minimum interval after
\* the previously recorded one, and the first _rate_limit_wait of a client
\* (the recorded time still has its initial value) does not sleep.
C14_ThrottleSpacing ==
    [][ /\ (step = "record" /\ step' # "record") =>
              /\ last_request_time' = now
              /\ last_request_time' >= last_request_time + min_request_interval
        /\ (step = "throttle" /\ step' # "throttle" /\ last_request_time = 0) =>
              (~slept' /\ now' = now)
      ]_vars

\* a second throttle step that had to sleep has completed exactly one interval
\* after the first
C14_Witness ==
    /\ step = "request"
    /\ throttled
    /\ slept
    /\ last_request_time = 2 * min_request_interval

\* the step belongs to a run of the engine: it is not the start of a new process
StepOfRun == pc \notin {"exit", "raised", "interrupted"}

\* (query_index, page) of t is not before that of s in lexicographic order
NotBefore(s, t) ==
    \/ t.query_index > s.query_index
    \/ t.query_index = s.query_index /\ t.page >= s.page

\* C21: within one run the pointer (query_index, page) never goes back, a search
\* call is never started for a pointer whose search has already returned in this
\* run (so the successful searches are strictly increasing in (query_index,
\* page)), and every artifact yielded is the hit at the position of the for
\* loop, which only moves forward through the page.
C21_SearchAndYieldOrder ==
    [][ StepOfRun =>
          /\ NotBefore(state, state')
          /\ (pc = "search" /\ pc' \in {"item", "post_inner"}
                /\ search_error' = NoError /\ ~rate_limited') => page_searched'
          /\ (page_searched /\ ~page_searched') => Pointer(state') # Pointer(state)
          /\ pc' = "search" => ~page_searched'
          /\ yielded' # yielded =>
                /\ idx \in 1..Len(data.items)
                /\ yielded' = Append(yielded, data.items[idx])
                /\ idx' = idx
          /\ (data # NoData /\ data' = data /\ idx' # 0) => idx' >= idx
      ]_vars

\* page 2 of the second strategy is being searched after an artifact was yielded
C21_Witness ==
    /\ pc = "search"
    /\ state.query_index = 1
    /\ state.page = 2
    /\ Len(yielded) >= 1
    /\ state.completed_queries = <<"q1">>

\* no element occurs twice in seq
NoDuplicates(seq) == \A i, j \in 1..Len(seq) : seq[i] = seq[j] => i = j

\* the outer loop is at a strategy that is already in completed_queries
AtCompletedStrategy ==
    pc = "outer" /\ OuterCondition /\ query \in Range(state.completed_queries)

\* C22: the step taken at a strategy already in completed_queries adds one to
\* query_index and sets page to 1, leaves completed_queries as it is and starts
\* no remote call; no search call is ever in progress for a strategy that is in
\* completed_queries; completed_queries never holds a strategy twice.
C22_SkipCompleted ==
    [][ /\ AtCompletedStrategy =>
              /\ state'.query_index = state.query_index + 1
              /\ state'.page = 1
              /\ state'.completed_queries = state.completed_queries
              /\ pc' = "outer"
              /\ attempt' = 0
        /\ pc' = "search" =>
              queries[state'.query_index + 1] \notin Range(state'.completed_queries)
        /\ NoDuplicates(state'.completed_queries)
      ]_vars

\* the third catalog entry, q1 once more, has been passed over
C22_Witness ==
    /\ pc = "outer"
    /\ queries = <<"q1", "q2", "q1">>
    /\ state.query_index = 3
    /\ state.completed_queries = <<"q1", "q2">>

\* the engine is past the seeding of lines 380-381 and has not returned
PastSeeding == pc \in InsideTry \ {"seed"}

\* C23: once the engine is past its seeding step (so before its first search
\* call and ever after), every repository whose artifact file is in the
\* directory is in seen_repos, and no metadata call and no content call is in
\* progress for a repository whose artifact file is in the directory.
C23_DiskSeeding ==
    /\ PastSeeding =>
          \A fn \in FullNames :
              ( /\ Len(SplitSlash(fn)) = 2
                /\ CacheFileName(SplitSlash(fn)[1], SplitSlash(fn)[2]) \in output_dir )
              => fn \in state.seen_repos
    /\ pc \in {"repo_info", "raw_content"} =>
          CacheFileName(owner, name) \notin output_dir

\* in a first run against a directory that holds the artifact of a/b, a search
\* has returned a/b and the for loop is at that hit
C23_Witness ==
    /\ pc = "item"
    /\ state_file = NoFile
    /\ yielded = <<>>
    /\ idx \in 1..Len(data.items)
    /\ full_name = <<"a", "/", "b">>
    /\ CacheFileName(<<"a">>, <<"b">>) \in output_dir
    /\ state.total_fetched < max_repos

\* C24: no metadata call and no content call is in progress for a repository
\* that is in failed_repos, in the run that recorded the failure and in every
\* process resumed from a state file that holds it.
C24_FailedNeverRetried ==
    /\ pc \in {"repo_info", "raw_content"} => full_name \notin state.failed_repos
    /\ state.failed_repos \subseteq state.seen_repos

\* the second strategy has returned a repository whose content retrieval failed
\* earlier, and the for loop is at that hit
C24_Witness ==
    /\ pc = "item"
    /\ idx \in 1..Len(data.items)
    /\ state.total_fetched < max_repos
    /\ state.query_index = 1
    /\ full_name \in state.failed_repos

\* C25: on every step of a run query_index does not decrease; in every state it
\* is at most the length of the catalog and page is at least 1; a step that
\* increases query_index increases it by one and sets page to 1.
C25_PointerInvariants ==
    [][ /\ StepOfRun => state'.query_index >= state.query_index
        /\ state'.query_index \in 0..Len(queries)
        /\ state'.page >= 1
        /\ (StepOfRun /\ state'.query_index # state.query_index) =>
              /\ state'.query_index = state.query_index + 1
              /\ state'.page = 1
      ]_vars

\* the generator has returned with the pointer at the end of the catalog after
\* fetching an artifact
C25_Witness ==
    /\ pc = "returned"
    /\ state.query_index = Len(queries)
    /\ state.page = 1
    /\ state.total_fetched >= 1

\* the first position of strategy q in the catalog, 0 when it is not in it
CatalogIndex(q) ==
    IF \E k \in 1..Len(queries) : queries[k] = q
    THEN CHOOSE k \in 1..Len(queries) :
            queries[k] = q /\ \A j \in 1..(k-1) : queries[j] # q
    ELSE 0

\* C26: in every state of a crawl started from the empty state, each member of
\* completed_queries is a strategy of the catalog at a position before
\* query_index, and completed_queries lists its members in catalog order with
\* none twice.
C26_LedgerPointerConsistency ==
    LET cq == state.completed_queries IN
    /\ \A i \in 1..Len(cq) : CatalogIndex(cq[i]) \in 1..state.query_index
    /\ \A i, j \in 1..Len(cq) : i < j => CatalogIndex(cq[i]) < CatalogIndex(cq[j])
    /\ NoDuplicates(cq)

\* both strategies are completed and the outer loop is at the third catalog
\* entry, which names q1 again
C26_Witness ==
    /\ pc = "outer"
    /\ queries = <<"q1", "q2", "q1">>
    /\ state.query_index = 2
    /\ state.completed_queries = <<"q1", "q2">>
    /\ state.total_fetched < max_repos

\* the step invokes progress_callback: within a run each call carries a larger
\* first argument than the one before, so the recorded arguments change
ProgressInvoked == progress' # progress

\* the for loop is at a hit that line 424 skips
AtSeenHit ==
    /\ pc = "item"
    /\ idx \in 1..Len(data.items)
    /\ state.total_fetched < max_repos
    /\ full_name \in state.seen_repos

\* C27: within a run the progress callback is invoked exactly on the steps that
\* add one to total_fetched (a cache hit, or a fresh hit whose content was
\* retrieved), with the new total_fetched as first argument and the cached flag
\* set for a cache hit only; it is not invoked for a hit skipped by the ledger.
C27_ProgressPerCountedMatch ==
    [][ StepOfRun =>
          /\ ProgressInvoked <=> state'.total_fetched # state.total_fetched
          /\ ProgressInvoked =>
                /\ state'.total_fetched = state.total_fetched + 1
                /\ progress'.current = state'.total_fetched
                /\ progress'.cached <=> pc = "item"
                /\ ~AtSeenHit
          /\ AtSeenHit => (~ProgressInvoked /\ idx' = idx + 1)
      ]_vars

\* the first hit of a page failed its content retrieval without a callback, and
\* the second has been reported as the first counted match and is being yielded
C27_Witness ==
    /\ pc = "yielded"
    /\ idx = 2
    /\ data.items[1] \in state.failed_repos
    /\ state.total_fetched = 1
    /\ progress = [current |-> 1, cached |-> FALSE]

\* the step ends the handling of a well-formed hit that the ledger did not skip
HitHandled ==
    /\ StepOfRun
    /\ idx \in 1..Len(data.items)
    /\ Len(SplitSlash(full_name)) = 2
    /\ ~AtSeenHit
    /\ data' = data
    /\ idx' = idx + 1

\* C27 as stated: every hit that is not skipped by dedup has had the progress
\* callback invoked for it when its handling ends (at the yield, or on the step
\* that counts a cache hit).
C27_Original ==
    [][ HitHandled => (pc = "yielded" \/ ProgressInvoked) ]_vars

\* C28: when an error of the search call that is not retried has left the
\* engine and fetch_all, the persisted state (the fresh state when no state file
\* was ever written) equals the in-memory state in query_index, page,
\* total_fetched, seen_repos, failed_repos and completed_queries.
C28_Original ==
    (pc = "raised" /\ search_error.exception = "TransportError") =>
        load(state_file) = state


\* C29: after save_configs_to_disk has written the artifacts of any identifiers
\* into an empty directory, _get_cached_repos on that directory returns exactly
\* the owner/name of the identifiers written: every one of them decoded from
\* owner__name.lua to its own owner and name, and nothing from the .meta files.
C29_CacheIndexExact ==
    pc = "cached" =>
        /\ state.seen_repos = Range(yielded)
        /\ \A o \in Owners, n \in Names :
              (CacheFileName(o, n) \in output_dir) =
                  (FullNameOf([owner |-> o, name |-> n]) \in state.seen_repos)

C29_Witness ==
    /\ pc = "cached"
    /\ Len(yielded) = MaxSaved
    /\ <<"a", "_", "b", "/", "_", "b">> \in state.seen_repos
    /\ <<"a", "/", "b", "_", "_", "c">> \in state.seen_repos
    /\ Cardinality(output_dir) = 4


\* a cache fast-path hit is counted by the step
CacheHitCounted == ProgressInvoked /\ progress'.cached

\* C30: on every step of a run total_fetched either stays, with nothing yielded
\* and no cache hit counted, or grows by exactly one together with exactly one
\* yield or exactly one counted cache hit; so its growth since the start of the
\* run is the number of yields plus the number of counted cache hits, and it
\* never decreases.
C30_TotalFetchedAccounting ==
    [][ StepOfRun =>
          LET d == state'.total_fetched - state.total_fetched
              y == Len(yielded') - Len(yielded)
              h == IF CacheHitCounted THEN 1 ELSE 0
          IN  /\ d \in {0, 1}
              /\ y \in {0, 1}
              /\ d = y + h
              /\ y = 1 => yielded' = Append(yielded, full_name)
      ]_vars

\* both hits of a page have been counted and yielded, the second is with the
\* consumer
C30_Witness ==
    /\ pc = "yielded"
    /\ yielded = << <<"a", "/", "b">>, <<"c", "/", "d">> >>
    /\ state.total_fetched = 2
    /\ state.page = 1
    /\ state.query_index = 0


\* the body of http_response holds "rate limit" in some spelling
BodySaysRateLimit ==
    \E i \in DOMAIN http_response.text :
        http_response.text[i] \in {"rate limit", "Rate Limit", "RATE LIMIT"}

\* the response carries the rate-limit signal of the claim
RateLimitSignal ==
    /\ http_response.status = 403
    /\ (http_response.remaining = "0" \/ BodySaysRateLimit)

\* C35: _check_rate_limit raises the rate-limit error exactly for a 403 whose
\* remaining-quota header is "0" or whose body holds "rate limit" in any
\* spelling, raises the HTTP status error exactly for every other status
\* outside 200..299, and raises nothing exactly for a status in 200..299.
C35_RateLimitClassification ==
    pc = "checked" =>
        /\ attempt_error.exception = "RateLimitError" <=> RateLimitSignal
        /\ attempt_error.exception = "HTTPStatusError" <=>
              (~RateLimitSignal /\ http_response.status \notin 200..299)
        /\ attempt_error.exception = "none" <=> http_response.status \in 200..299

\* a 403 with quota left whose body says "Rate Limit" in capitals was classified
\* as a rate-limit signal
C35_Witness ==
    /\ pc = "checked"
    /\ http_response.status = 403
    /\ http_response.remaining = "59"
    /\ http_response.text = <<"API", "Rate Limit", "exceeded">>
    /\ attempt_error.exception = "RateLimitError"


\* C33: when fetch_all has ended normally (the catalog complete, the cap
\* reached, or a rate-limit halt), a state file exists and holds the final
\* in-memory state with every field, a query_index advanced by the skip of a
\* completed strategy included.
C33_FinalStatePersisted ==
    pc = "exit" =>
        /\ state_file # NoFile
        /\ load(state_file) = state
        /\ json_loads(state_file).query_index = state.query_index

\* the run ended after the third catalog entry, a strategy completed earlier,
\* was skipped without a checkpoint of its own
C33_Witness ==
    /\ pc = "exit"
    /\ state.query_index = 3
    /\ state.completed_queries = <<"q1", "q2">>
    /\ state.total_fetched < max_repos
    /\ state_file = save(state)


\* the ways the engine stops
CatalogExhausted == state.query_index = Len(queries)
CapReached == state.total_fetched >= max_repos
RateLimitHalt == rate_limited
ErrorPropagated == pc = "raised" /\ search_error.exception # "none"

\* the engine has stopped in one of the four ways
Stopped ==
    \/ pc = "returned" /\ (CatalogExhausted \/ CapReached \/ RateLimitHalt)
    \/ ErrorPropagated

\* C36: from every start of the engine, fresh or resumed at any catalog position,
\* for every max_repos and every behaviour of the search, metadata and content
\* calls, the engine eventually stops: it returns with the catalog exhausted,
\* the cap reached or a rate-limit halt, or an error propagates.
C36_Termination == (pc = "seed") ~> Stopped

\* the engine returned after a rate-limit halt on the second page of the second
\* strategy, with an artifact fetched
C36_Witness ==
    /\ pc = "returned"
    /\ RateLimitHalt
    /\ state.query_index = 1
    /\ state.page = 2
    /\ state.total_fetched = 1
    /\ ~CapReached


\* the latest search call of the run ended in the halt of lines 405-408
HaltedBySearch == rate_limited /\ search_error.exception = "RetryError"

\* C37: when the engine has returned, the catalog is unfinished with the cap not
\* reached exactly when the run was stopped by the rate-limit or
\* retries-exhausted halt of the search call; otherwise the catalog is complete
\* or the cap was reached.
C37_OutcomeRecoverable ==
    pc = "returned" =>
        /\ (state.query_index < Len(queries) /\ state.total_fetched < max_repos)
              <=> HaltedBySearch
        /\ ~HaltedBySearch => (CatalogExhausted \/ CapReached)

\* a halted run and a run that completed the catalog below the cap have both
\* been told apart: the engine returned halted at the first strategy
C37_Witness ==
    /\ pc = "returned"
    /\ HaltedBySearch
    /\ state.query_index = 0
    /\ state.page = 1
    /\ state.total_fetched = 0
    /\ state.completed_queries = <<>>


\* a request of the search, metadata or content call is in progress
NetworkCall == pc \in {"search", "repo_info", "raw_content"}

\* C38: total_fetched never exceeds max_repos; an artifact is yielded only from a
\* state below the cap and counts one, so a run yields at most max_repos minus
\* its starting total_fetched; and no network call is in progress at the cap, so
\* a run started at the cap makes none.
C38_CapInvariant ==
    /\ [](state.total_fetched <= max_repos)
    /\ [](CapReached => ~NetworkCall)
    /\ [][ (StepOfRun /\ yielded' # yielded) =>
              /\ state.total_fetched < max_repos
              /\ state'.total_fetched = state.total_fetched + 1
              /\ Len(yielded') = Len(yielded) + 1 ]_vars

\* a process resumed at the cap with strategies left is at its first statement
C38_Witness ==
    /\ pc = "seed"
    /\ state.total_fetched = max_repos
    /\ max_repos = MaxCap
    /\ state.query_index < Len(queries)
    /\ Len(yielded) = MaxCap


\* C40: failed_repos is a subset of seen_repos in every state, and no step of a
\* run removes an element from seen_repos or from failed_repos.
C40_LedgerInclusion ==
    /\ [](state.failed_repos \subseteq state.seen_repos)
    /\ [][ StepOfRun =>
              /\ state.seen_repos \subseteq state'.seen_repos
              /\ state.failed_repos \subseteq state'.failed_repos ]_vars

\* a resumed process whose ledgers hold a failed repository fetched another one
C40_Witness ==
    /\ pc = "yielded"
    /\ state_file # NoFile
    /\ load(state_file).failed_repos = { <<"c", "/", "d">> }
    /\ state.failed_repos = { <<"c", "/", "d">> }
    /\ state.seen_repos = { <<"a", "/", "b">>, <<"c", "/", "d">> }
    /\ full_name = <<"a", "/", "b">>


\* the identifier fn of the persisted state s is accounted for: its artifact
\* was on disk when the crawl started, or it was counted in total_fetched when
\* it was yielded, or it is in failed_repos
Accounted(fn, s) ==
    \/ fn \in get_cached_repos(output_dir)
    \/ fn \in Range(yielded)
    \/ fn \in s.failed_repos

\* C39: in every state written to the state file, by the checkpoint callback or
\* by the interrupt handler, every well-formed identifier of seen_repos was on
\* disk at the start of the crawl, or has been counted in total_fetched, or is
\* in failed_repos.
C39_Original ==
    state_file # NoFile =>
        \A fn \in load(state_file).seen_repos :
            Len(SplitSlash(fn)) = 2 => Accounted(fn, load(state_file))


\* the step is the reset of a resumed state
ResetStep == phase = 0 /\ phase' = 4

SingleSearchReturned == pc = "sc_search" /\ pc' # "sc_search" /\ page_searched'

\* C31: search_configs yields at most max_repos artifacts and never two for the
\* same repository; it requests page 1 first and page p + 1 only after the
\* search of page p has returned, each page once and none beyond page 10; and it
\* stops after a page p with p * 100 >= total_count and after a page without
\* items.
C31_SingleQueryMode ==
    /\ [](/\ Len(yielded) <= max_repos
          /\ single.fetched = Len(yielded)
          /\ NoDuplicates(yielded))
    /\ [](pc = "sc_search" => (single.page \in 1..PageCeiling /\ ~page_searched))
    /\ []((~page_searched /\ pc \in {"sc_while", "sc_search"} /\ yielded = <<>>
             /\ single.seen_repos = {}) => single.page = 1)
    /\ [][ \/ single'.page = single.page
           \/ single'.page = single.page + 1 /\ page_searched ]_vars
    /\ [][ (pc = "sc_paginate" /\ single.page * PerPage >= data.total_count)
              => pc' = "sc_done" ]_vars
    /\ [][ (SingleSearchReturned /\ data'.items = <<>>) => pc' = "sc_done" ]_vars
    /\ [][ pc # "sc_done" ]_vars

\* the stream ended at the page ceiling with the cap not reached
C31_Witness ==
    /\ pc = "sc_done"
    /\ single.page = PageCeiling
    /\ data.total_count = 2000
    /\ single.fetched < max_repos
    /\ yielded = << <<"a", "/", "b">> >>

\* C32: when the search call of search_configs is answered HTTP 422, the stream
\* ends normally and no error is raised to the consumer.
C32_Original ==
    (pc \in {"sc_done", "sc_raised"} /\ search_error.status = 422) => pc = "sc_done"

============================================================================
